---- MODULE Spec2Model ----
(***************************************************************************)
(* RssDigestEmailer: the scheduled ingestion-to-delivery pipeline.         *)
(*                                                                         *)
(* The server is one Node.js process.  Every request handler and every     *)
(* firing of the cron trigger is an async function: it runs without        *)
(* interruption from one `await` to the next, and other handlers may run   *)
(* while it is suspended.  A handler slot p of Procs holds one invocation: *)
(* pc[p] is the await it is suspended at and loc[p] its local variables.   *)
(* One action is one resumption: the awaited call takes effect and the     *)
(* code that follows it runs up to the next await.                         *)
(*                                                                         *)
(* Storage is the IStorage interface; every call on it is a promise that   *)
(* may reject (PostgresStorage): an action that resumes after a storage   *)
(* call takes `up`, whether the call resolved (TRUE) or rejected (FALSE).  *)
(***************************************************************************)
EXTENDS Integers, Sequences, FiniteSets, TLC

(***************************************************************************)
(* Bounds of the model.                                                    *)
(***************************************************************************)
MaxTicks == 1      \* the clock advances at most this many hours
MaxTasks == 2      \* cron task handles that can be live at once
MaxDigests == 2    \* rows the summaries table can hold

Procs == {"h1", "h2"}                 \* concurrently suspended handlers
FeedIds == {"f1", "f2"}               \* rows of the feeds table
Freqs == {1, 2}                       \* frequencyHours values a request sends
TaskIds == 1..MaxTasks

(***************************************************************************)
(* Values.                                                                 *)
(***************************************************************************)
NULL == "NULL"                        \* JavaScript null / undefined for a text
NoTime == -1
HourMs == 3600000
NoSettings == [isEnabled |-> FALSE, frequencyHours |-> 0, nextRun |-> NoTime,
               lastRun |-> NoTime, exists |-> FALSE]
NoTask == 0

Truthy(s) == s \notin {NULL, ""}

VARIABLES
  now,               \* Date.now(), in ms
  serving,           \* registerRoutes has finished: the HTTP routes exist
  task,              \* SchedulerService.task
  armed,             \* the cron tasks that are started and not stopped
  taskExpr,          \* the cron expression of each live cron task
  isRunning,         \* SchedulerService.isRunning
  scheduleSettings,  \* the schedule_settings row
  feeds,             \* the feeds table
  summaries,         \* the summaries table, a digest's id is its index
  emailSettings,     \* the email_settings row
  transporter,       \* EmailService.transporter
  pc,                \* the await each handler slot is suspended at
  loc                \* the local variables of each handler slot

vars == <<now, serving, task, armed, taskExpr, isRunning, scheduleSettings,
          feeds, summaries, emailSettings, transporter, pc, loc>>

schedVars == <<task, armed, taskExpr, isRunning, scheduleSettings>>
dataVars == <<feeds, summaries, emailSettings, transporter>>
envVars == <<now>>

(***************************************************************************)
(* Local variables of a handler invocation.                                *)
(***************************************************************************)
NoTransport == [set |-> FALSE, cfg |-> 0, by |-> "none"]
NoGen == [title |-> <<>>, excerpt |-> <<>>, content |-> <<>>]

NoCheck == [id |-> "none"]
NoReply == [call |-> "none"]

LocInit ==
  [op |-> "none",            \* the entry point this slot serves
   settings |-> NoSettings,  \* `settings` of updateSchedule / runScheduledTask
   sid |-> 0,                \* summaryId
   target |-> 0,             \* the summaryId a retry request names
   err |-> "",               \* the Error message caught or returned
   queue |-> <<>>,           \* activeFeeds still to be checked
   articles |-> <<>>,        \* allArticles (the source feed of each)
   dates |-> <<>>,           \* allArticles (the pubDate of each)
   processed |-> <<>>,       \* processedFeedIds
   reply |-> NoReply,        \* the response createAISummary has just got
   gen |-> NoGen,            \* summaryData
   via |-> NoTransport,      \* the transporter sendMail was called on
   mail |-> 0,               \* the configuration a mail-settings request carries
   sent |-> "none",          \* emailResult: "none", "ok", "failed"
   check |-> NoCheck,        \* the last rssService.checkFeed call and its result
   logs |-> <<>>,            \* levels of the activity-log rows this invocation appended
   res |-> "none"]           \* how the invocation ended

\* An invocation has ended: pc is "done" until the result is handed to the
\* caller (the response is sent, the callback returns); the locals are gone.
Ended(l, status) == [LocInit EXCEPT !.op = l.op, !.res = status, !.sid = l.sid]

Started(op) == [LocInit EXCEPT !.op = op]

AddLog(l, level) == [l EXCEPT !.logs = Append(@, level)]

DbError == "storage unavailable"

\* the start-up failed: initialize() rejected and the process has exited
Crashed == \E p \in Procs : pc[p] = "done" /\ loc[p].op = "initialize" /\ loc[p].res = "threw"

\* the result of an invocation is handed over and the slot is free again
Settle(p) ==
  /\ pc[p] = "done" /\ ~Crashed
  /\ pc' = [pc EXCEPT ![p] = "idle"]
  /\ loc' = [loc EXCEPT ![p] = LocInit]
  /\ UNCHANGED <<envVars, serving, schedVars, dataVars>>

(***************************************************************************)
(* storage.createOrUpdateScheduleSettings: update the fields given when a  *)
(* row exists, insert a row with the column defaults otherwise.            *)
(***************************************************************************)
ScheduleDefaults ==
  [isEnabled |-> TRUE, frequencyHours |-> 4, nextRun |-> NoTime, lastRun |-> NoTime,
   exists |-> TRUE]

createOrUpdateScheduleSettings(existing, upd) ==
  LET base == IF existing.exists THEN existing ELSE ScheduleDefaults
  IN  [f \in DOMAIN base |->
         IF f = "exists" THEN TRUE
         ELSE IF f \in DOMAIN upd THEN upd[f] ELSE base[f]]

(***************************************************************************)
(* SchedulerService.getCronExpression: the hour step of the expression     *)
(* ('0 * * * *' is every hour, '0 0 * * *' once a day at midnight).        *)
(***************************************************************************)
\* every frequency gets the 4-hour expression
EveryFourHours(hours) == "0 */4 * * *"

getCronExpression(hours) ==
  IF hours = 1 THEN "0 * * * *"
  ELSE IF hours = 2 THEN "0 */2 * * *"
  ELSE IF hours = 4 THEN "0 */4 * * *"
  ELSE IF hours = 6 THEN "0 */6 * * *"
  ELSE IF hours = 8 THEN "0 */8 * * *"
  ELSE IF hours = 12 THEN "0 */12 * * *"
  ELSE IF hours = 24 THEN "0 0 * * *"
  ELSE "0 */4 * * *"

\* one hour later, whatever the frequency
NextHour(t, hours) == t + HourMs

\* SchedulerService.getNextRunTime
getNextRunTime(t, hours) == t + hours * HourMs

(***************************************************************************)
(* The environment: the clock.                                             *)
(***************************************************************************)
Tick ==
  /\ now < MaxTicks * HourMs
  /\ now' = now + HourMs
  /\ UNCHANGED <<serving, schedVars, dataVars, pc, loc>>

(***************************************************************************)
(* SchedulerService.updateSchedule, called by initialize() from            *)
(* registerRoutes and by POST /api/schedule.                               *)
(***************************************************************************)
\* the previous trigger is dropped without being stopped
DropTask(live, t) == live

\* task.stop() of the previous trigger: the live cron tasks left.
StopTask(live, t) == live \ {t}

FreshTask(live) == CHOOSE t \in TaskIds : t \notin live

\* updateSchedule rejects: initialize() fails the start-up, the route answers 500.
updateSchedule_throws(p) ==
  /\ pc' = [pc EXCEPT ![p] = "done"]
  /\ loc' = [loc EXCEPT ![p] = Ended([@ EXCEPT !.err = DbError], "threw")]

\* updateSchedule resolves.
updateSchedule_returns(p, l) ==
  IF l.op = "initialize"
  THEN /\ serving' = TRUE
       /\ pc' = [pc EXCEPT ![p] = "done"]
       /\ loc' = [loc EXCEPT ![p] = Ended(l, "ok")]
  ELSE /\ serving' = serving
       /\ pc' = [pc EXCEPT ![p] = "ps_log"]
       /\ loc' = [loc EXCEPT ![p] = l]

\* line 15: settings = await storage.getScheduleSettings()  (the query runs)
updateSchedule_read(p, up) ==
  /\ pc[p] = "u_read"
  /\ IF up
     THEN /\ pc' = [pc EXCEPT ![p] = "u_cont"]
          /\ loc' = [loc EXCEPT ![p].settings = scheduleSettings]
     ELSE updateSchedule_throws(p)
  /\ UNCHANGED <<envVars, serving, schedVars, dataVars>>

\* lines 17-44: the handler resumes with the row it read
updateSchedule_cont(p) ==
  /\ pc[p] = "u_cont"
  /\ LET s == loc[p].settings
         live == IF task # NoTask THEN StopTask(armed, task) ELSE armed
     IN  IF ~s.exists \/ ~s.isEnabled
         THEN /\ task' = NoTask
              /\ armed' = live
              /\ taskExpr' = [t \in TaskIds |-> IF t \in live THEN taskExpr[t] ELSE ""]
              /\ pc' = [pc EXCEPT ![p] = "u_log_dis"]
              /\ loc' = loc
         ELSE /\ \E t \in TaskIds : t \notin live
              /\ task' = FreshTask(live)
              /\ armed' = live \cup {FreshTask(live)}
              /\ taskExpr' = [t \in TaskIds |->
                                IF t = FreshTask(live)
                                THEN getCronExpression(s.frequencyHours)
                                ELSE IF t \in live THEN taskExpr[t] ELSE ""]
              /\ pc' = [pc EXCEPT ![p] = "u_write"]
              /\ loc' = [loc EXCEPT ![p].settings =
                           [s EXCEPT !.nextRun = getNextRunTime(now, s.frequencyHours)]]
  /\ UNCHANGED <<envVars, serving, isRunning, scheduleSettings, dataVars>>

\* lines 41-44: await storage.createOrUpdateScheduleSettings({...settings, nextRun})
updateSchedule_write(p, up) ==
  /\ pc[p] = "u_write"
  /\ IF up
     THEN /\ scheduleSettings' =
               createOrUpdateScheduleSettings(scheduleSettings, loc[p].settings)
          /\ pc' = [pc EXCEPT ![p] = "u_log_upd"]
          /\ loc' = loc
     ELSE /\ updateSchedule_throws(p)
          /\ scheduleSettings' = scheduleSettings
  /\ UNCHANGED <<envVars, serving, task, armed, taskExpr, isRunning, dataVars>>

\* lines 23-28 and 46-55: the 'Scheduler disabled' / 'Scheduler updated' row
updateSchedule_log(p, up) ==
  /\ pc[p] \in {"u_log_dis", "u_log_upd"}
  /\ IF up
     THEN updateSchedule_returns(p, AddLog(loc[p], "info"))
     ELSE updateSchedule_throws(p) /\ serving' = serving
  /\ UNCHANGED <<envVars, schedVars, dataVars>>

(***************************************************************************)
(* POST /api/schedule                                                      *)
(***************************************************************************)
\* the request arrives: storage.createOrUpdateScheduleSettings(scheduleData) is called
postSchedule(p, enabled, hours) ==
  /\ serving /\ pc[p] = "idle"
  /\ pc' = [pc EXCEPT ![p] = "ps_write"]
  /\ loc' = [loc EXCEPT ![p] =
               [Started("postSchedule") EXCEPT
                  !.settings = [NoSettings EXCEPT !.isEnabled = enabled,
                                                  !.frequencyHours = hours]]]
  /\ UNCHANGED <<envVars, serving, schedVars, dataVars>>

\* the row is written, then schedulerService.updateSchedule() is called
postSchedule_write(p, up) ==
  /\ pc[p] = "ps_write"
  /\ IF up
     THEN /\ scheduleSettings' =
               createOrUpdateScheduleSettings(scheduleSettings,
                 [isEnabled |-> loc[p].settings.isEnabled,
                  frequencyHours |-> loc[p].settings.frequencyHours])
          /\ pc' = [pc EXCEPT ![p] = "u_read"]
          /\ loc' = loc
     ELSE /\ updateSchedule_throws(p)
          /\ scheduleSettings' = scheduleSettings
  /\ UNCHANGED <<envVars, serving, task, armed, taskExpr, isRunning, dataVars>>

\* the 'Schedule updated' row, then the response
postSchedule_log(p, up) ==
  /\ pc[p] = "ps_log"
  /\ pc' = [pc EXCEPT ![p] = "done"]
  /\ loc' = [loc EXCEPT ![p] =
               IF up THEN Ended(AddLog(@, "info"), "ok")
               ELSE Ended([@ EXCEPT !.err = DbError], "threw")]
  /\ UNCHANGED <<envVars, serving, schedVars, dataVars>>

(***************************************************************************)
(* Texts.  A text is a sequence of tokens; the token " " is white space.   *)
(***************************************************************************)
Space == " "

RECURSIVE TrimStart(_)
TrimStart(t) == IF t # <<>> /\ Head(t) = Space THEN TrimStart(Tail(t)) ELSE t

RECURSIVE TrimEnd(_)
TrimEnd(t) ==
  IF t # <<>> /\ t[Len(t)] = Space THEN TrimEnd(SubSeq(t, 1, Len(t) - 1)) ELSE t

\* String.prototype.trim
Trim(t) == TrimEnd(TrimStart(t))

(***************************************************************************)
(* RSSService.parseFeed(url, retries).  A url is its path segments.  The   *)
(* environment decides each parser.parseURL call: outs[k] is whether the   *)
(* k-th call on the primary url succeeds, altOk whether the call on the    *)
(* alternative url does, items what a successful call yields.              *)
(***************************************************************************)
DefaultRetries == 2

endsWithFeed(url) == url # <<>> /\ url[Len(url)] = "feed"

RECURSIVE replaceFirst(_, _, _)
\* String.prototype.replace(from, to): the first occurrence only
replaceFirst(url, from, to) ==
  IF url = <<>> THEN <<>>
  ELSE IF Head(url) = from THEN <<to>> \o Tail(url)
  ELSE <<Head(url)>> \o replaceFirst(Tail(url), from, to)

ParseFailure == [ok |-> FALSE, items |-> <<>>, calls |-> 0, alt |-> FALSE,
                 fetched |-> <<>>]

\* one call on the primary url and no retry
parseFeedOnce(attempt, url, retries, outs, altOk, items) ==
  IF outs[attempt + 1]
  THEN [ok |-> TRUE, items |-> items, calls |-> attempt + 1, alt |-> FALSE,
        fetched |-> url]
  ELSE [ParseFailure EXCEPT !.calls = attempt + 1]

RECURSIVE parseFeedFrom(_, _, _, _, _, _)
\* the loop from `attempt` on.  calls: parseURL calls made on the primary url,
\* alt: the alternative url was tried, fetched: the url that parsed
parseFeedFrom(attempt, url, retries, outs, altOk, items) ==
  IF attempt > retries
  THEN [ParseFailure EXCEPT !.calls = attempt]
  ELSE IF outs[attempt + 1]
  THEN [ok |-> TRUE, items |-> items, calls |-> attempt + 1, alt |-> FALSE,
        fetched |-> url]
  ELSE IF attempt = retries
  THEN IF endsWithFeed(url)
       THEN IF altOk
            THEN [ok |-> TRUE, items |-> items, calls |-> attempt + 1, alt |-> TRUE,
                  fetched |-> replaceFirst(url, "feed", "rss")]
            ELSE [ParseFailure EXCEPT !.calls = attempt + 1, !.alt = TRUE]
       ELSE [ParseFailure EXCEPT !.calls = attempt + 1]
  ELSE parseFeedFrom(attempt + 1, url, retries, outs, altOk, items)

parseFeed(url, retries, outs, altOk, items) ==
  parseFeedFrom(0, url, retries, outs, altOk, items)

(***************************************************************************)
(* storage.updateFeed: the update touches the row of that id, if any.      *)
(***************************************************************************)
updateFeed(fs, id, updates) ==
  IF id \in DOMAIN fs
  THEN [fs EXCEPT ![id] = [f \in DOMAIN @ |->
                             IF f \in DOMAIN updates THEN updates[f] ELSE @[f]]]
  ELSE fs

\* lines 104-109 and 144-148: the update of a failed check
FailedCheck(cause, t) == [status |-> "error", lastError |-> cause, lastChecked |-> t]

\* the update of a successful check leaves lastError as it is
PassedKeepsError(t) == [status |-> "active", lastChecked |-> t]

\* lines 125-129: the update of a successful check
PassedCheck(t) == [status |-> "active", lastError |-> NULL, lastChecked |-> t]

(***************************************************************************)
(* RSSService.checkFeed(feedId).  ups says which of its storage calls      *)
(* resolve: get (getFeed), update and log (updateFeed and                  *)
(* createActivityLog of the try block), cupdate and clog (those of the     *)
(* catch block).  threw: an exception leaves checkFeed.  The awaits of one *)
(* call are taken in one step: each of its writes is a single updateFeed.  *)
(***************************************************************************)
AllUp == [get |-> TRUE, update |-> TRUE, log |-> TRUE, cupdate |-> TRUE, clog |-> TRUE]
Ups == [get : BOOLEAN, update : BOOLEAN, log : BOOLEAN, cupdate : BOOLEAN,
        clog : BOOLEAN]

CheckResult(fs, threw, success, items, error, logs, parse) ==
  [feeds |-> fs, threw |-> threw, success |-> success, items |-> items,
   error |-> error, logs |-> logs, parse |-> parse]

\* lines 143-162: the catch block
checkFeed_catch(fs, feedId, t, ups, message, parse) ==
  IF ~ups.cupdate
  THEN CheckResult(fs, TRUE, FALSE, <<>>, DbError, <<>>, parse)
  ELSE LET marked == updateFeed(fs, feedId, FailedCheck(message, t))
       IN  IF ~ups.clog
           THEN CheckResult(marked, TRUE, FALSE, <<>>, DbError, <<>>, parse)
           ELSE CheckResult(marked, FALSE, FALSE, <<>>, message, <<"error">>, parse)

\* lines 96-141: the try block
checkFeed(fs, feedId, t, ups, outs, altOk, items) ==
  IF ~ups.get THEN checkFeed_catch(fs, feedId, t, ups, DbError, ParseFailure)
  ELSE IF feedId \notin DOMAIN fs
  THEN checkFeed_catch(fs, feedId, t, ups, "Feed not found", ParseFailure)
  ELSE LET feedData == parseFeed(fs[feedId].url, DefaultRetries, outs, altOk, items)
           update == IF feedData.ok THEN PassedCheck(t)
                     ELSE FailedCheck("Failed to parse RSS feed", t)
           written == updateFeed(fs, feedId, update)
       IN  IF ~ups.update THEN checkFeed_catch(fs, feedId, t, ups, DbError, feedData)
           ELSE IF ~ups.log
           THEN checkFeed_catch(written, feedId, t, ups, DbError, feedData)
           ELSE IF feedData.ok
           THEN CheckResult(written, FALSE, TRUE, feedData.items, "", <<"info">>,
                            feedData)
           ELSE CheckResult(written, FALSE, FALSE, <<>>, "Failed to parse RSS feed",
                            <<"error">>, feedData)

\* what a slot remembers of a checkFeed call
Checked(id, ups, outs, altOk, t, result) ==
  [id |-> id, ups |-> ups, outs |-> outs, altOk |-> altOk,
   calls |-> result.parse.calls, alt |-> result.parse.alt,
   parsed |-> result.parse.ok, fetched |-> result.parse.fetched,
   items |-> result.items,
   success |-> result.success, threw |-> result.threw, at |-> t]

(***************************************************************************)
(* SummaryService.generateSummary, lines 57-77: the articles one feed      *)
(* contributes.  An item is [title, content, pubDate]; title and content   *)
(* say whether the field is a non-empty text.                              *)
(***************************************************************************)
DayHours == 24
PerFeedCap == 10

IsRecent(item, t) == item.pubDate = NoTime \/ item.pubDate > t - DayHours * HourMs

recentItems(items, t) ==
  LET kept == SelectSeq(items, LAMBDA i : IsRecent(i, t))
  IN  SubSeq(kept, 1, IF Len(kept) < PerFeedCap THEN Len(kept) ELSE PerFeedCap)

\* the first usable article only
FirstArticle(items, t, source) ==
  LET usable == SelectSeq(recentItems(items, t), LAMBDA i : i.title /\ i.content)
  IN  IF usable = <<>> THEN <<>> ELSE <<source>>

\* lines 57-77: every recent item with a title and a content is an article
feedArticles(items, t, source) ==
  LET usable == SelectSeq(recentItems(items, t), LAMBDA i : i.title /\ i.content)
  IN  [k \in 1..Len(usable) |-> source]

\* lines 67-76: the pubDate each of these articles carries
articleDates(items, t) ==
  LET usable == SelectSeq(recentItems(items, t), LAMBDA i : i.title /\ i.content)
  IN  [k \in 1..Len(usable) |-> usable[k].pubDate]

(***************************************************************************)
(* SummaryService.buildFallbackSummary.  articles: the source name of each *)
(* article.                                                                *)
(***************************************************************************)
TopTitles == 5

RECURSIVE uniqueSources(_)
\* Array.from(new Set(articles.map(a => a.source).filter(Boolean)))
uniqueSources(articles) ==
  IF articles = <<>> THEN <<>>
  ELSE LET init == uniqueSources(SubSeq(articles, 1, Len(articles) - 1))
           last == articles[Len(articles)]
       IN  IF Truthy(last) /\ \A k \in 1..Len(init) : init[k] # last
           THEN Append(init, last) ELSE init

RECURSIVE join(_, _)
\* Array.prototype.join
join(strs, sep) ==
  IF strs = <<>> THEN ""
  ELSE IF Len(strs) = 1 THEN strs[1]
  ELSE strs[1] \o sep \o join(Tail(strs), sep)

\* the plural whatever the number
AlwaysPlural(n) == "s"

Plural(n) == IF n = 1 THEN "" ELSE "s"

DateString(t) == "day " \o ToString(t \div (DayHours * HourMs))

buildFallbackSummary(articles, t) ==
  LET articleCount == Len(articles)
      sources == uniqueSources(articles)
      sourceCount == Len(sources)
      sourceList == IF sourceCount > 0 THEN join(sources, ", ")
                    ELSE "your configured RSS feeds"
      shown == IF articleCount < TopTitles THEN articleCount ELSE TopTitles
      topTitles == IF shown > 0 THEN [k \in 1..shown |-> "* title"]
                   ELSE <<"No articles were available to summarize.">>
      articleLabel == "Latest news from " \o ToString(articleCount) \o " article"
                        \o Plural(articleCount)
      sourceLabel == IF sourceCount > 0
                     THEN "across " \o ToString(sourceCount) \o " source"
                            \o Plural(sourceCount) \o "."
                     ELSE "from your configured RSS feeds."
  IN  [title |-> <<"News Summary - " \o DateString(t)>>,
       excerpt |-> Trim(<<articleLabel \o " " \o sourceLabel>>),
       content |-> <<"# Latest News Summary", "**Sources:** " \o sourceList,
                     "**Top Stories:**">> \o topTitles \o
                   <<"This summary was generated from " \o ToString(articleCount)
                       \o " article" \o Plural(articleCount)
                       \o ". AI summarization was unavailable.">>]

(***************************************************************************)
(* SummaryService.createAISummary.  The response of the text-generation    *)
(* call is                                                                 *)
(*   call    "throws" or "ok"                                              *)
(*   choice  "none" (no choices[0]), "noMessage", "message"                *)
(*   ctype   the type of message.content: "string", "array", "other"       *)
(*   parts   the content: one text for a string, the parts of an array     *)
(*           (a part is [kind: "string" | "text" | "other", text])         *)
(*   json    what JSON.parse makes of the text: [valid, kind, title,       *)
(*           content, excerpt], a field being [isString, text]             *)
(***************************************************************************)
Placeholder == "could not be generated"

\* /could not be generated/i.test(text)
MatchesPlaceholder(text) ==
  \E k \in 1..Len(text) : text[k] \in {Placeholder, "Could Not Be Generated"}

RECURSIVE joinParts(_)
joinParts(parts) ==
  IF parts = <<>> THEN <<>>
  ELSE (IF Head(parts).kind = "other" THEN <<>> ELSE Head(parts).text)
         \o joinParts(Tail(parts))

\* lines 184-200
rawContent(resp) ==
  IF resp.ctype = "string" THEN Trim(resp.parts[1].text)
  ELSE IF resp.ctype = "array" THEN Trim(joinParts(resp.parts))
  ELSE <<>>

\* lines 221-223: typeof v === 'string' ? v.trim() : ''
FieldText(v) == IF v.isString THEN Trim(v.text) ELSE <<>>

\* the field as the model gave it
KeepText(text, fallback) == text

\* the field of the fallback, whatever the model gave
FallbackText(text, fallback) == fallback

\* title || fallback
OrElse(text, fallback) == IF text # <<>> THEN text ELSE fallback

createAISummary(articles, resp, t) ==
  LET fallbackSummary == buildFallbackSummary(articles, t)
  IN  IF resp.call = "throws" THEN fallbackSummary
      ELSE IF resp.choice # "message" THEN fallbackSummary
      ELSE IF rawContent(resp) = <<>> THEN fallbackSummary
      ELSE IF ~resp.json.valid THEN fallbackSummary
      ELSE IF resp.json.kind # "object" THEN fallbackSummary
      ELSE LET title == FieldText(resp.json.title)
               content == FieldText(resp.json.content)
               excerpt == FieldText(resp.json.excerpt)
           IN  IF content = <<>> \/ MatchesPlaceholder(content)
               THEN fallbackSummary
               ELSE [title |-> OrElse(title, fallbackSummary.title),
                     content |-> content,
                     excerpt |-> OrElse(excerpt, fallbackSummary.excerpt)]

(***************************************************************************)
(* SummaryService.generateSummary, as called by runScheduledTask, runNow,  *)
(* POST /api/summaries/generate and retrySummary.                          *)
(***************************************************************************)
FeedOrder == <<"f1", "f2">>           \* storage.getFeeds(): by createdAt

Eligible(fs, id) == id \in DOMAIN fs /\ fs[id].isActive /\ fs[id].includeInSummary

\* line 42: feeds.filter(f => f.isActive && f.includeInSummary)
activeFeeds(fs) == SelectSeq(FeedOrder, LAMBDA id : Eligible(fs, id))

\* an invocation that may still insert a digest
MayCreate(p) ==
  /\ pc[p] \notin {"idle", "done"}
  /\ loc[p].op \in {"cron", "runNow", "generate", "retry"}
  /\ loc[p].sid = 0

\* the summaries table has room for the digest of one more invocation
CanCreate == Len(summaries) + Cardinality({p \in Procs : MayCreate(p)}) < MaxDigests

\* generateSummary resolves or rejects: where its caller resumes
generateSummary_returns(p, l, outcome) ==
  LET op == l.op
      caught == [l EXCEPT !.err = IF outcome = "threw" THEN DbError ELSE @]
  IN  IF op = "cron"
      THEN /\ pc' = [pc EXCEPT ![p] =
                       IF outcome = "ok" THEN "s_get"
                       ELSE IF outcome = "failed" THEN "rs_log_failed"
                       ELSE "rs_catch"]
           /\ loc' = [loc EXCEPT ![p] = caught]
      ELSE IF op = "runNow" /\ outcome = "ok"
      THEN /\ pc' = [pc EXCEPT ![p] = "s_get"]
           /\ loc' = [loc EXCEPT ![p] = l]
      ELSE /\ pc' = [pc EXCEPT ![p] = "done"]
           /\ loc' = [loc EXCEPT ![p] =
                        Ended(caught, IF outcome = "ok" THEN "ok"
                                      ELSE IF op = "generate" THEN outcome
                                      ELSE "failed")]

\* an Error is thrown inside the try block: the catch block is entered and
\* storage.createActivityLog called
generateSummary_fails(p, l, message) ==
  /\ pc' = [pc EXCEPT ![p] = "g_catch"]
  /\ loc' = [loc EXCEPT ![p] = [l EXCEPT !.err = message]]

\* lines 34-41: the 'Starting summary generation' row
generateSummary_start(p, up) ==
  /\ pc[p] = "g_logstart"
  /\ IF up
     THEN /\ pc' = [pc EXCEPT ![p] = "g_getfeeds"]
          /\ loc' = [loc EXCEPT ![p] = AddLog(@, "info")]
     ELSE generateSummary_fails(p, loc[p], DbError)
  /\ UNCHANGED <<envVars, serving, schedVars, dataVars>>

\* lines 41-53: feeds = await storage.getFeeds()
generateSummary_getFeeds(p, up) ==
  /\ pc[p] = "g_getfeeds"
  /\ IF ~up THEN generateSummary_fails(p, loc[p], DbError)
     ELSE IF activeFeeds(feeds) = <<>>
     THEN generateSummary_fails(p, loc[p], "No active feeds available for summarization")
     ELSE /\ pc' = [pc EXCEPT ![p] = "g_check"]
          /\ loc' = [loc EXCEPT ![p].queue = activeFeeds(feeds)]
  /\ UNCHANGED <<envVars, serving, schedVars, dataVars>>

\* lines 52-86: result = await rssService.checkFeed(feed.id), the rest of the
\* loop body and, after the last feed, the statements up to createAISummary
generateSummary_check(p, outs, altOk, items, ups) ==
  /\ pc[p] = "g_check"
  /\ LET l == loc[p]
         feed == Head(l.queue)
         result == checkFeed(feeds, feed, now, ups, outs, altOk, items)
         logged == [l EXCEPT !.logs = @ \o result.logs,
                             !.check = Checked(feed, ups, outs, altOk, now, result)]
         counted == IF result.success /\ Len(result.items) > 0
                    THEN [logged EXCEPT
                            !.processed = Append(@, feed),
                            !.articles = @ \o feedArticles(result.items, now,
                                                           feeds[feed].name),
                            !.dates = @ \o articleDates(result.items, now)]
                    ELSE logged
         next == [counted EXCEPT !.queue = Tail(@)]
     IN  /\ feeds' = result.feeds
         /\ IF result.threw THEN generateSummary_fails(p, logged, result.error)
            ELSE IF next.queue # <<>>
            THEN pc' = pc /\ loc' = [loc EXCEPT ![p] = next]
            ELSE IF next.articles = <<>>
            THEN generateSummary_fails(p, next, "No articles found in any feeds")
            ELSE /\ pc' = [pc EXCEPT ![p] = "g_ai"]
                 /\ loc' = [loc EXCEPT ![p] = next]
  /\ UNCHANGED <<envVars, serving, schedVars, summaries, emailSettings, transporter>>

\* line 86: summaryData = await this.createAISummary(allArticles)
generateSummary_summarize(p, resp) ==
  /\ pc[p] = "g_ai"
  /\ pc' = [pc EXCEPT ![p] = "g_create"]
  /\ loc' = [loc EXCEPT ![p].reply = resp,
                         ![p].gen = createAISummary(loc[p].articles, resp, now)]
  /\ UNCHANGED <<envVars, serving, schedVars, dataVars>>

\* lines 89-98: the digest row
NewSummary(l) ==
  [title |-> l.gen.title, content |-> l.gen.content, excerpt |-> l.gen.excerpt,
   articleCount |-> Len(l.articles), sourceCount |-> Len(l.processed),
   emailSent |-> FALSE, emailError |-> NULL, feedIds |-> l.processed]

\* lines 89-98: summary = await storage.createSummary({...})
generateSummary_create(p, up) ==
  /\ pc[p] = "g_create"
  /\ IF up
     THEN /\ summaries' = Append(summaries, NewSummary(loc[p]))
          /\ pc' = [pc EXCEPT ![p] = "g_logok"]
          /\ loc' = [loc EXCEPT ![p].sid = Len(summaries) + 1, ![p].reply = NoReply]
     ELSE /\ generateSummary_fails(p, [loc[p] EXCEPT !.reply = NoReply], DbError)
          /\ summaries' = summaries
  /\ UNCHANGED <<envVars, serving, schedVars, feeds, emailSettings, transporter>>

\* lines 100-114: the 'Summary generated successfully' row, then the result
generateSummary_logDone(p, up) ==
  /\ pc[p] = "g_logok"
  /\ IF up
     THEN generateSummary_returns(p, AddLog(loc[p], "info"), "ok")
     ELSE generateSummary_fails(p, loc[p], DbError)
  /\ UNCHANGED <<envVars, serving, schedVars, dataVars>>

\* lines 116-130: the 'Summary generation failed' row, then the failure result
generateSummary_catch(p, up) ==
  /\ pc[p] = "g_catch"
  /\ IF up
     THEN generateSummary_returns(p, AddLog(loc[p], "error"), "failed")
     ELSE generateSummary_returns(p, loc[p], "threw")
  /\ UNCHANGED <<envVars, serving, schedVars, dataVars>>

(***************************************************************************)
(* EmailService.sendSummaryEmail(summaryId) and initializeTransporter, as  *)
(* called by runScheduledTask, runNow and POST /api/summaries/:id/send-email *)
(***************************************************************************)
MailConfigured(es) == es.exists /\ es.isActive

\* storage.updateSummary: the update touches the row of that id, if any
updateSummary(ds, id, updates) ==
  IF id \in 1..Len(ds)
  THEN [ds EXCEPT ![id] = [f \in DOMAIN @ |->
                             IF f \in DOMAIN updates THEN updates[f] ELSE @[f]]]
  ELSE ds

\* lines 298-301: the update after a dispatch
MarkSent == [emailSent |-> TRUE, emailError |-> NULL]

\* the update of the catch block leaves emailSent as it is
NoteError(errorMessage) == [emailError |-> errorMessage]

\* lines 321-324: the update of the catch block
MarkFailed(errorMessage) == [emailSent |-> FALSE, emailError |-> errorMessage]

\* sendSummaryEmail resolves or rejects: where its caller resumes
sendSummaryEmail_returns(p, l, outcome) ==
  LET op == l.op
      r == [l EXCEPT !.sent = IF outcome = "ok" THEN "ok" ELSE "failed",
                     !.err = IF outcome = "threw" THEN DbError ELSE @]
  IN  IF op = "cron"
      THEN /\ pc' = [pc EXCEPT ![p] =
                       IF outcome = "ok" THEN "rs_log_done"
                       ELSE IF outcome = "failed" THEN "rs_log_emailfail"
                       ELSE "rs_catch"]
           /\ loc' = [loc EXCEPT ![p] = r]
      ELSE IF op = "runNow" /\ outcome = "ok"
      THEN /\ pc' = [pc EXCEPT ![p] = "rn_log_done"]
           /\ loc' = [loc EXCEPT ![p] = r]
      ELSE /\ pc' = [pc EXCEPT ![p] = "done"]
           /\ loc' = [loc EXCEPT ![p] =
                        Ended(r, IF op = "runNow"
                                 THEN (IF outcome = "failed" THEN "ok" ELSE "failed")
                                 ELSE outcome)]

\* an Error is thrown inside the try block: the catch block is entered and
\* storage.updateSummary called (sendTestEmail: storage.createActivityLog)
sendSummaryEmail_fails(p, l, message) ==
  /\ pc' = [pc EXCEPT ![p] = IF l.op = "testEmail" THEN "t_catch" ELSE "s_catch"]
  /\ loc' = [loc EXCEPT ![p] = [l EXCEPT !.err = message]]

\* lines 295 and 391: this.transporter!.sendMail(mailOptions) is called
sendSummaryEmail_dispatch(p, l, tr) ==
  IF tr.set
  THEN /\ pc' = [pc EXCEPT ![p] = IF l.op = "testEmail" THEN "t_send" ELSE "s_send"]
       /\ loc' = [loc EXCEPT ![p] = [l EXCEPT !.via = tr]]
  ELSE sendSummaryEmail_fails(p, l, "Cannot read properties of null")

\* lines 266-269: summary = await storage.getSummary(summaryId)
sendSummaryEmail_getSummary(p, up) ==
  /\ pc[p] = "s_get"
  /\ IF ~up THEN sendSummaryEmail_fails(p, loc[p], DbError)
     ELSE IF loc[p].sid \notin 1..Len(summaries)
     THEN sendSummaryEmail_fails(p, loc[p], "Summary not found")
     ELSE pc' = [pc EXCEPT ![p] = "s_getset"] /\ loc' = loc
  /\ UNCHANGED <<envVars, serving, schedVars, dataVars>>

\* lines 271-295: settings = await storage.getEmailSettings() and what follows
sendSummaryEmail_getSettings(p, up) ==
  /\ pc[p] = "s_getset"
  /\ IF ~up THEN sendSummaryEmail_fails(p, loc[p], DbError)
     ELSE IF ~MailConfigured(emailSettings)
     THEN sendSummaryEmail_fails(p, loc[p], "Email settings not configured")
     ELSE IF ~transporter.set
     THEN pc' = [pc EXCEPT ![p] = "i_getset"] /\ loc' = loc
     ELSE sendSummaryEmail_dispatch(p, loc[p], transporter)
  /\ UNCHANGED <<envVars, serving, schedVars, dataVars>>

\* lines 231-251: settings = await storage.getEmailSettings(), createTransporter
\* (created: whether it returns a transport or throws), transporter.verify() called
initializeTransporter_create(p, created, up) ==
  /\ pc[p] = "i_getset"
  /\ IF ~up \/ (MailConfigured(emailSettings) /\ ~created)
     THEN /\ transporter' = NoTransport
          /\ sendSummaryEmail_fails(p, loc[p], "Failed to initialize email service")
     ELSE IF ~MailConfigured(emailSettings)
     THEN /\ transporter' = transporter
          /\ sendSummaryEmail_fails(p, loc[p], "Failed to initialize email service")
     ELSE /\ transporter' = [set |-> TRUE, cfg |-> emailSettings.cfg, by |-> p]
          /\ pc' = [pc EXCEPT ![p] = "i_verify"]
          /\ loc' = loc
  /\ UNCHANGED <<envVars, serving, schedVars, feeds, summaries, emailSettings>>

\* lines 251-258 and 277-295: verify() settles, initializeTransporter returns
initializeTransporter_verify(p, verified) ==
  /\ pc[p] = "i_verify"
  /\ IF verified
     THEN /\ transporter' = transporter
          /\ sendSummaryEmail_dispatch(p, loc[p], transporter)
     ELSE /\ transporter' = NoTransport
          /\ sendSummaryEmail_fails(p, loc[p], "Failed to initialize email service")
  /\ UNCHANGED <<envVars, serving, schedVars, feeds, summaries, emailSettings>>

\* lines 295-301: sendMail settles
sendSummaryEmail_send(p, delivered) ==
  /\ pc[p] = "s_send"
  /\ IF delivered
     THEN pc' = [pc EXCEPT ![p] = "s_updok"] /\ loc' = loc
     ELSE sendSummaryEmail_fails(p, loc[p], "SMTP error")
  /\ UNCHANGED <<envVars, serving, schedVars, dataVars>>

\* lines 298-301: await storage.updateSummary(summaryId, {emailSent: true, ...})
sendSummaryEmail_markSent(p, up) ==
  /\ pc[p] = "s_updok"
  /\ IF up
     THEN /\ summaries' = updateSummary(summaries, loc[p].sid, MarkSent)
          /\ pc' = [pc EXCEPT ![p] = "s_logok"]
          /\ loc' = loc
     ELSE /\ summaries' = summaries
          /\ sendSummaryEmail_fails(p, loc[p], DbError)
  /\ UNCHANGED <<envVars, serving, schedVars, feeds, emailSettings, transporter>>

\* lines 303-314: the 'Email sent successfully' row, then the result
sendSummaryEmail_logSent(p, up) ==
  /\ pc[p] = "s_logok"
  /\ IF up
     THEN sendSummaryEmail_returns(p, AddLog(loc[p], "info"), "ok")
     ELSE sendSummaryEmail_fails(p, loc[p], DbError)
  /\ UNCHANGED <<envVars, serving, schedVars, dataVars>>

\* lines 316-325: await storage.updateSummary(summaryId, {emailSent: false, ...})
sendSummaryEmail_markFailed(p, up) ==
  /\ pc[p] = "s_catch"
  /\ IF up
     THEN /\ summaries' = updateSummary(summaries, loc[p].sid, MarkFailed(loc[p].err))
          /\ pc' = [pc EXCEPT ![p] = "s_logerr"]
          /\ loc' = loc
     ELSE /\ summaries' = summaries
          /\ sendSummaryEmail_returns(p, loc[p], "threw")
  /\ UNCHANGED <<envVars, serving, schedVars, feeds, emailSettings, transporter>>

\* lines 327-337: the 'Email sending failed' row, then the failure result
sendSummaryEmail_logFailed(p, up) ==
  /\ pc[p] = "s_logerr"
  /\ IF up
     THEN sendSummaryEmail_returns(p, AddLog(loc[p], "error"), "failed")
     ELSE sendSummaryEmail_returns(p, loc[p], "threw")
  /\ UNCHANGED <<envVars, serving, schedVars, dataVars>>

(***************************************************************************)
(* SchedulerService.runScheduledTask, the callback of the cron task.       *)
(***************************************************************************)
\* line 68: this.isRunning = true
AcquireLock(running) == TRUE

\* the flag is reset at the end of the try block only
ReleaseOnReturn(running, left) == IF left = "returned" THEN FALSE ELSE running

\* lines 125-127: finally { this.isRunning = false }, whichever way the try
\* statement was left ("returned", "caught", "threw")
ReleaseLock(running, left) == FALSE

\* lines 58-75: the trigger t fires and the callback runs up to its first await
runScheduledTask(p, t) ==
  /\ t \in armed /\ pc[p] = "idle" /\ ~Crashed
  /\ IF isRunning
     THEN /\ pc' = [pc EXCEPT ![p] = "rs_skiplog"]
          /\ isRunning' = isRunning
     ELSE /\ CanCreate
          /\ pc' = [pc EXCEPT ![p] = "rs_logstart"]
          /\ isRunning' = AcquireLock(isRunning)
  /\ loc' = [loc EXCEPT ![p] = Started("cron")]
  /\ UNCHANGED <<envVars, serving, task, armed, taskExpr, scheduleSettings, dataVars>>

\* lines 60-65: the 'Scheduled task skipped' row
runScheduledTask_skip(p, up) ==
  /\ pc[p] = "rs_skiplog"
  /\ pc' = [pc EXCEPT ![p] = "done"]
  /\ loc' = [loc EXCEPT ![p] =
               IF up THEN Ended(AddLog(@, "info"), "skipped")
               ELSE Ended([@ EXCEPT !.err = DbError], "threw")]
  /\ UNCHANGED <<envVars, serving, schedVars, dataVars>>

\* an exception reaches the catch block of line 118: createActivityLog is called
runScheduledTask_caught(p) ==
  /\ pc' = [pc EXCEPT ![p] = "rs_catch"]
  /\ loc' = [loc EXCEPT ![p].err = DbError]

\* lines 71-78: the 'Starting scheduled RSS processing' row
runScheduledTask_logStart(p, up) ==
  /\ pc[p] = "rs_logstart"
  /\ IF up
     THEN /\ pc' = [pc EXCEPT ![p] = "rs_getset"]
          /\ loc' = [loc EXCEPT ![p] = AddLog(@, "info")]
     ELSE runScheduledTask_caught(p)
  /\ UNCHANGED <<envVars, serving, schedVars, dataVars>>

\* lines 78-88: settings = await storage.getScheduleSettings()
runScheduledTask_getSettings(p, up) ==
  /\ pc[p] = "rs_getset"
  /\ IF ~up THEN runScheduledTask_caught(p)
     ELSE IF scheduleSettings.exists
     THEN /\ pc' = [pc EXCEPT ![p] = "rs_putset"]
          /\ loc' = [loc EXCEPT ![p].settings =
                       [scheduleSettings EXCEPT
                          !.lastRun = now,
                          !.nextRun = getNextRunTime(now, scheduleSettings.frequencyHours)]]
     ELSE pc' = [pc EXCEPT ![p] = "g_logstart"] /\ loc' = loc
  /\ UNCHANGED <<envVars, serving, schedVars, dataVars>>

\* lines 80-88: await storage.createOrUpdateScheduleSettings({...settings, lastRun, nextRun})
runScheduledTask_putSettings(p, up) ==
  /\ pc[p] = "rs_putset"
  /\ IF up
     THEN /\ scheduleSettings' =
               createOrUpdateScheduleSettings(scheduleSettings, loc[p].settings)
          /\ pc' = [pc EXCEPT ![p] = "g_logstart"]
          /\ loc' = loc
     ELSE /\ scheduleSettings' = scheduleSettings
          /\ runScheduledTask_caught(p)
  /\ UNCHANGED <<envVars, serving, task, armed, taskExpr, isRunning, dataVars>>

RunLogs == {"rs_log_done", "rs_log_emailfail", "rs_log_failed"}

\* lines 95-116 and 125-127: the row that records the outcome, then finally
runScheduledTask_logOutcome(p, up) ==
  /\ pc[p] \in RunLogs
  /\ IF up
     THEN /\ pc' = [pc EXCEPT ![p] = "done"]
          /\ loc' = [loc EXCEPT ![p] =
                       IF pc[p] = "rs_log_done" THEN Ended(AddLog(@, "info"), "ok")
                       ELSE IF pc[p] = "rs_log_emailfail"
                       THEN Ended(AddLog(@, "error"), "emailFailed")
                       ELSE Ended(AddLog(@, "error"), "failed")]
          /\ isRunning' = ReleaseLock(isRunning, "returned")
     ELSE /\ runScheduledTask_caught(p)
          /\ isRunning' = isRunning
  /\ UNCHANGED <<envVars, serving, task, armed, taskExpr, scheduleSettings, dataVars>>

\* lines 118-127: the 'Scheduled task error' row, then finally
runScheduledTask_catch(p, up) ==
  /\ pc[p] = "rs_catch"
  /\ pc' = [pc EXCEPT ![p] = "done"]
  /\ loc' = [loc EXCEPT ![p] =
               IF up THEN Ended(AddLog(@, "error"), "error") ELSE Ended(@, "threw")]
  /\ isRunning' = ReleaseLock(isRunning, IF up THEN "caught" ELSE "threw")
  /\ UNCHANGED <<envVars, serving, task, armed, taskExpr, scheduleSettings, dataVars>>

(***************************************************************************)
(* SchedulerService.runNow, called by POST /api/schedule/run-now.          *)
(***************************************************************************)
\* lines 135-147: the request arrives and runNow runs up to its first await
runNow(p) ==
  /\ serving /\ pc[p] = "idle"
  /\ IF isRunning
     THEN /\ pc' = [pc EXCEPT ![p] = "done"]
          /\ loc' = [loc EXCEPT ![p] =
                       Ended([Started("runNow") EXCEPT
                                !.err = "A scheduled task is already running"],
                             "rejected")]
     ELSE /\ CanCreate
          /\ pc' = [pc EXCEPT ![p] = "rn_logstart"]
          /\ loc' = [loc EXCEPT ![p] = Started("runNow")]
  /\ UNCHANGED <<envVars, serving, schedVars, dataVars>>

\* lines 143-149: the 'Manual RSS processing started' row
runNow_logStart(p, up) ==
  /\ pc[p] = "rn_logstart"
  /\ IF up
     THEN /\ pc' = [pc EXCEPT ![p] = "g_logstart"]
          /\ loc' = [loc EXCEPT ![p] = AddLog(@, "info")]
     ELSE /\ pc' = [pc EXCEPT ![p] = "done"]
          /\ loc' = [loc EXCEPT ![p] = Ended([@ EXCEPT !.err = DbError], "failed")]
  /\ UNCHANGED <<envVars, serving, schedVars, dataVars>>

\* lines 155-166: the 'Manual task completed successfully' row, then the result
runNow_logDone(p, up) ==
  /\ pc[p] = "rn_log_done"
  /\ pc' = [pc EXCEPT ![p] = "done"]
  /\ loc' = [loc EXCEPT ![p] =
               IF up THEN Ended(AddLog(@, "info"), "ok")
               ELSE Ended([@ EXCEPT !.err = DbError], "failed")]
  /\ UNCHANGED <<envVars, serving, schedVars, dataVars>>

(***************************************************************************)
(* Routes that call one service method.                                    *)
(***************************************************************************)
\* POST /api/summaries/:id/send-email
sendEmail(p, id) ==
  /\ serving /\ pc[p] = "idle"
  /\ pc' = [pc EXCEPT ![p] = "s_get"]
  /\ loc' = [loc EXCEPT ![p] = [Started("sendEmail") EXCEPT !.sid = id]]
  /\ UNCHANGED <<envVars, serving, schedVars, dataVars>>

\* POST /api/summaries/generate
generateRequest(p) ==
  /\ serving /\ pc[p] = "idle" /\ CanCreate
  /\ pc' = [pc EXCEPT ![p] = "g_logstart"]
  /\ loc' = [loc EXCEPT ![p] = Started("generate")]
  /\ UNCHANGED <<envVars, serving, schedVars, dataVars>>

\* POST /api/feeds/:id/check
checkFeedRequest(p, id, outs, altOk, items, ups) ==
  /\ serving /\ pc[p] = "idle"
  /\ LET result == checkFeed(feeds, id, now, ups, outs, altOk, items)
     IN  /\ feeds' = result.feeds
         /\ loc' = [loc EXCEPT ![p] =
                      [Ended(Started("checkFeed"),
                             IF result.threw THEN "threw"
                             ELSE IF result.success THEN "ok" ELSE "failed")
                       EXCEPT !.err = result.error, !.logs = result.logs,
                              !.check = Checked(id, ups, outs, altOk, now, result)]]
  /\ pc' = [pc EXCEPT ![p] = "done"]
  /\ UNCHANGED <<envVars, serving, schedVars, summaries, emailSettings, transporter>>

(***************************************************************************)
(* SummaryService.retrySummary(summaryId), called by                       *)
(* POST /api/summaries/:id/retry.  Its catch block returns the failure     *)
(* without an await: a generateSummary that rejects is reported as well.   *)
(***************************************************************************)
retryRequest(p, id) ==
  /\ serving /\ pc[p] = "idle" /\ CanCreate
  /\ pc' = [pc EXCEPT ![p] = "r_get"]
  /\ loc' = [loc EXCEPT ![p] = [Started("retry") EXCEPT !.target = id]]
  /\ UNCHANGED <<envVars, serving, schedVars, dataVars>>

\* what the request is answered when retrySummary returns from its catch block
RetryFailed(l, message) ==
  [Ended(l, "failed") EXCEPT !.err = message, !.logs = l.logs]

\* the digest is not looked up: generateSummary is called for any id
retrySummary_anyId(p, up) ==
  /\ pc[p] = "r_get"
  /\ pc' = [pc EXCEPT ![p] = "g_logstart"] /\ loc' = loc
  /\ UNCHANGED <<envVars, serving, schedVars, dataVars>>

\* lines 282-288: summary = await storage.getSummary(summaryId)
retrySummary_getSummary(p, up) ==
  /\ pc[p] = "r_get"
  /\ IF ~up
     THEN /\ pc' = [pc EXCEPT ![p] = "done"]
          /\ loc' = [loc EXCEPT ![p] = RetryFailed(@, DbError)]
     ELSE IF loc[p].target \notin 1..Len(summaries)
     THEN /\ pc' = [pc EXCEPT ![p] = "done"]
          /\ loc' = [loc EXCEPT ![p] = RetryFailed(@, "Summary not found")]
     ELSE pc' = [pc EXCEPT ![p] = "g_logstart"] /\ loc' = loc
  /\ UNCHANGED <<envVars, serving, schedVars, dataVars>>

(***************************************************************************)
(* POST /api/email-settings: the row is written with the settings of the   *)
(* request (cfg stands for server, port, credentials and security mode),   *)
(* then an activity-log row.  The route does not touch emailService.       *)
(***************************************************************************)
postEmailSettings(p, cfg) ==
  /\ serving /\ pc[p] = "idle"
  /\ pc' = [pc EXCEPT ![p] = "es_write"]
  /\ loc' = [loc EXCEPT ![p] = [Started("postEmailSettings") EXCEPT !.mail = cfg]]
  /\ UNCHANGED <<envVars, serving, schedVars, dataVars>>

\* settings = await storage.createOrUpdateEmailSettings(settingsData)
postEmailSettings_write(p, up) ==
  /\ pc[p] = "es_write"
  /\ IF up
     THEN /\ emailSettings' = [exists |-> TRUE, isActive |-> TRUE, cfg |-> loc[p].mail]
          /\ pc' = [pc EXCEPT ![p] = "es_log"]
          /\ loc' = loc
     ELSE /\ emailSettings' = emailSettings
          /\ pc' = [pc EXCEPT ![p] = "done"]
          /\ loc' = [loc EXCEPT ![p] = Ended([@ EXCEPT !.err = DbError], "threw")]
  /\ UNCHANGED <<envVars, serving, schedVars, feeds, summaries, transporter>>

\* the 'Email settings updated' row, then the response
postEmailSettings_log(p, up) ==
  /\ pc[p] = "es_log"
  /\ pc' = [pc EXCEPT ![p] = "done"]
  /\ loc' = [loc EXCEPT ![p] =
               IF up THEN Ended(AddLog(@, "info"), "ok")
               ELSE Ended([@ EXCEPT !.err = DbError], "threw")]
  /\ UNCHANGED <<envVars, serving, schedVars, dataVars>>

(***************************************************************************)
(* EmailService.sendTestEmail, called by POST /api/email-settings/test.    *)
(***************************************************************************)
testEmailRequest(p) ==
  /\ serving /\ pc[p] = "idle"
  /\ pc' = [pc EXCEPT ![p] = "t_getset"]
  /\ loc' = [loc EXCEPT ![p] = Started("testEmail")]
  /\ UNCHANGED <<envVars, serving, schedVars, dataVars>>

\* lines 346-391: settings = await storage.getEmailSettings() and what follows
sendTestEmail_getSettings(p, up) ==
  /\ pc[p] = "t_getset"
  /\ IF ~up THEN sendSummaryEmail_fails(p, loc[p], DbError)
     ELSE IF ~MailConfigured(emailSettings)
     THEN sendSummaryEmail_fails(p, loc[p], "Email settings not configured")
     ELSE IF ~transporter.set
     THEN pc' = [pc EXCEPT ![p] = "i_getset"] /\ loc' = loc
     ELSE sendSummaryEmail_dispatch(p, loc[p], transporter)
  /\ UNCHANGED <<envVars, serving, schedVars, dataVars>>

\* line 391: sendMail settles
sendTestEmail_send(p, delivered) ==
  /\ pc[p] = "t_send"
  /\ IF delivered
     THEN pc' = [pc EXCEPT ![p] = "t_logok"] /\ loc' = loc
     ELSE sendSummaryEmail_fails(p, loc[p], "SMTP error")
  /\ UNCHANGED <<envVars, serving, schedVars, dataVars>>

\* lines 393-403: the 'Test email sent successfully' row, then the result
sendTestEmail_logSent(p, up) ==
  /\ pc[p] = "t_logok"
  /\ IF up
     THEN /\ pc' = [pc EXCEPT ![p] = "done"]
          /\ loc' = [loc EXCEPT ![p] = Ended(AddLog(@, "info"), "ok")]
     ELSE sendSummaryEmail_fails(p, loc[p], DbError)
  /\ UNCHANGED <<envVars, serving, schedVars, dataVars>>

\* lines 405-419: the 'Test email failed' row, then the failure result
sendTestEmail_catch(p, up) ==
  /\ pc[p] = "t_catch"
  /\ pc' = [pc EXCEPT ![p] = "done"]
  /\ loc' = [loc EXCEPT ![p] =
               IF up THEN Ended(AddLog(@, "error"), "failed") ELSE Ended(@, "threw")]
  /\ UNCHANGED <<envVars, serving, schedVars, dataVars>>

(***************************************************************************)
(* What the environment can answer.                                        *)
(***************************************************************************)
\* the outcomes of the parser.parseURL calls on the primary url
AllOuts == [1..(DefaultRetries + 1) -> BOOLEAN]
SteadyOuts == {[k \in 1..(DefaultRetries + 1) |-> b] : b \in BOOLEAN}

\* items of a parsed feed
Item(title, content, pubDate) ==
  [title |-> title, content |-> content, pubDate |-> pubDate]
FreshItem(t) == Item(TRUE, TRUE, t)
StaleItem(t) == Item(TRUE, TRUE, t - (DayHours + 1) * HourMs)
UndatedItem == Item(TRUE, TRUE, NoTime)
BlankItem(t) == Item(TRUE, FALSE, t)

FewItems(t) == {<<>>, <<FreshItem(t)>>, <<StaleItem(t)>>, <<UndatedItem, BlankItem(t)>>}

\* responses of the text-generation call
Str(text) == [isString |-> TRUE, text |-> text]
Missing == [isString |-> FALSE, text |-> <<>>]
NoJson == [valid |-> FALSE, kind |-> "none", title |-> Missing, content |-> Missing,
           excerpt |-> Missing]
Obj(title, content, excerpt) ==
  [valid |-> TRUE, kind |-> "object", title |-> title, content |-> content,
   excerpt |-> excerpt]
TextPart(text) == [kind |-> "string", text |-> text]
Response(call, choice, ctype, parts, json) ==
  [call |-> call, choice |-> choice, ctype |-> ctype, parts |-> parts, json |-> json]

CallThrows == Response("throws", "none", "other", <<>>, NoJson)
GoodResponse ==
  Response("ok", "message", "string", <<TextPart(<<"{...}">>)>>,
           Obj(Str(<<"Title">>), Str(<<"Body">>), Str(<<"Excerpt">>)))

\* the texts a field of the parsed JSON can hold
TitleFields == {Missing, Str(<<>>), Str(<<Space>>), Str(<<"Title">>)}
ContentFields ==
  {Missing, Str(<<>>), Str(<<Space>>), Str(<<Placeholder>>),
   Str(<<"It", "Could Not Be Generated">>), Str(<<Space, "Body", Space>>)}
ExcerptFields == {Missing, Str(<<Space>>), Str(<<"Excerpt">>)}

Replies(json) == Response("ok", "message", "string", <<TextPart(<<"{...}">>)>>, json)

Responses ==
  {CallThrows,
   Response("ok", "none", "other", <<>>, NoJson),
   Response("ok", "noMessage", "other", <<>>, NoJson),
   Response("ok", "message", "other", <<>>, NoJson),
   Response("ok", "message", "string", <<TextPart(<<>>)>>, NoJson),
   Response("ok", "message", "string", <<TextPart(<<Space>>)>>, NoJson),
   Response("ok", "message", "array", <<>>, NoJson),
   Response("ok", "message", "array", <<[kind |-> "other", text |-> <<>>]>>, NoJson),
   Response("ok", "message", "array",
            <<TextPart(<<"{">>), [kind |-> "text", text |-> <<"...}">>]>>,
            Obj(Str(<<"Title">>), Str(<<"Body">>), Missing)),
   Replies(NoJson),
   Replies([NoJson EXCEPT !.valid = TRUE, !.kind = "null"]),
   Replies([NoJson EXCEPT !.valid = TRUE, !.kind = "array"]),
   Replies([NoJson EXCEPT !.valid = TRUE, !.kind = "number"])}
  \cup {Replies(Obj(t, c, e)) : t \in TitleFields, c \in ContentFields,
                                e \in ExcerptFields}

\* the storage calls of one checkFeed: all resolve, or one of them rejects
SomeUps ==
  {AllUp, [AllUp EXCEPT !.get = FALSE], [AllUp EXCEPT !.update = FALSE],
   [AllUp EXCEPT !.log = FALSE], [AllUp EXCEPT !.get = FALSE, !.cupdate = FALSE],
   [AllUp EXCEPT !.log = FALSE, !.clog = FALSE]}

(***************************************************************************)
(* The server after construction: registerRoutes has called                *)
(* schedulerService.initialize(), which is suspended in updateSchedule.    *)
(* The tables hold what an earlier life of the server left in them.        *)
(***************************************************************************)
Feed(name, url, active, include) ==
  [name |-> name, url |-> url, isActive |-> active, includeInSummary |-> include,
   status |-> "active", lastError |-> NULL, lastChecked |-> NoTime]

Schedule(enabled, hours) ==
  [isEnabled |-> enabled, frequencyHours |-> hours, nextRun |-> NoTime,
   lastRun |-> NoTime, exists |-> TRUE]

MailSettings(active, cfg) == [exists |-> TRUE, isActive |-> active, cfg |-> cfg]
NoMailSettings == [exists |-> FALSE, isActive |-> FALSE, cfg |-> 0]

Boot ==
  /\ now = 0
  /\ serving = FALSE
  /\ task = NoTask
  /\ armed = {}
  /\ taskExpr = [t \in TaskIds |-> ""]
  /\ isRunning = FALSE
  /\ transporter = NoTransport
  /\ pc = [p \in Procs |-> IF p = "h1" THEN "u_read" ELSE "idle"]
  /\ loc = [p \in Procs |-> IF p = "h1" THEN Started("initialize") ELSE LocInit]

\* The scheduler: the schedule is edited while the trigger fires and run-now
\* requests arrive.  No feed is active, so every run ends at 'No active
\* feeds', and the clock stands still.
Init ==
  /\ Boot
  /\ scheduleSettings \in {NoSettings, Schedule(TRUE, 1), Schedule(FALSE, 1)}
  /\ feeds = [id \in {"f1"} |-> Feed("Blog", <<"blog", "feed">>, FALSE, TRUE)]
  /\ summaries = <<>>
  /\ emailSettings = NoMailSettings

Schedule_steps(p, up) ==
  \/ updateSchedule_read(p, up)
  \/ updateSchedule_cont(p)
  \/ updateSchedule_write(p, up)
  \/ updateSchedule_log(p, up)
  \/ postSchedule_write(p, up)
  \/ postSchedule_log(p, up)

Run_steps(p, up) ==
  \/ runScheduledTask_skip(p, up)
  \/ runScheduledTask_logStart(p, up)
  \/ runScheduledTask_getSettings(p, up)
  \/ runScheduledTask_putSettings(p, up)
  \/ runScheduledTask_logOutcome(p, up)
  \/ runScheduledTask_catch(p, up)
  \/ runNow_logStart(p, up)

Generate_steps(p, up) ==
  \/ generateSummary_start(p, up)
  \/ generateSummary_getFeeds(p, up)
  \/ generateSummary_catch(p, up)

Next ==
  \/ \E p \in Procs :
       \/ \E enabled \in BOOLEAN, hours \in Freqs : postSchedule(p, enabled, hours)
       \/ \E t \in TaskIds : runScheduledTask(p, t)
       \/ runNow(p)
       \/ Settle(p)
       \/ \E up \in BOOLEAN :
            \/ Schedule_steps(p, up)
            \/ Run_steps(p, up)
            \/ Generate_steps(p, up)

Spec == Init /\ [][Next]_vars

(***************************************************************************)
(* Properties of the scheduler.                                            *)
(***************************************************************************)
\* C3: after any interleaving of updateSchedule calls at most one recurring
\* trigger is armed, and it is the one the scheduler holds: every trigger
\* armed before it has been stopped.
C3_OneTrigger == Cardinality(armed) <= 1 /\ armed \subseteq {task}

\* two updateSchedule calls overlap, both have passed the stop-and-arm
\* segment, and the trigger of the first has been replaced
C3_Witness ==
  /\ pc["h1"] = "u_write" /\ pc["h2"] = "u_write"
  /\ Cardinality(armed) = 1

\* the persisted schedule is disabled or absent
Disabled == ~scheduleSettings.exists \/ ~scheduleSettings.isEnabled

\* an updateSchedule call has found the schedule disabled or absent, has
\* stopped the trigger and is writing its 'Scheduler disabled' row
FoundDisabled == \E p \in Procs : pc[p] = "u_log_dis"

\* C5: after updateSchedule has found the schedule disabled (or absent), and
\* while the persisted schedule has not been enabled again, no trigger is armed.
C5_DisabledMeansUnarmed == (Disabled /\ FoundDisabled) => armed = {}

(***************************************************************************)
(* The runs: the schedule is enabled and is not edited, one feed is        *)
(* active, the trigger fires and run-now requests arrive.                  *)
(***************************************************************************)
RunInit ==
  /\ Boot
  /\ scheduleSettings = Schedule(TRUE, 1)
  /\ feeds = [id \in {"f1"} |-> Feed("Blog", <<"blog", "feed">>, TRUE, TRUE)]
  /\ summaries = <<>>
  /\ emailSettings = MailSettings(TRUE, 1)

Pipeline_steps(p, up) ==
  \/ generateSummary_create(p, up)
  \/ generateSummary_logDone(p, up)
  \/ \E outs \in SteadyOuts, items \in {<<>>, <<FreshItem(now)>>} :
       generateSummary_check(p, outs, FALSE, items, [AllUp EXCEPT !.get = up])
  \/ generateSummary_summarize(p, GoodResponse)
  \/ runNow_logDone(p, up)

Deliver_steps(p, up) ==
  \/ sendSummaryEmail_getSummary(p, up)
  \/ sendSummaryEmail_getSettings(p, up)
  \/ \E created \in BOOLEAN : initializeTransporter_create(p, created, up)
  \/ \E verified \in BOOLEAN : initializeTransporter_verify(p, verified)
  \/ \E delivered \in BOOLEAN : sendSummaryEmail_send(p, delivered)
  \/ sendSummaryEmail_markSent(p, up)
  \/ sendSummaryEmail_logSent(p, up)
  \/ sendSummaryEmail_markFailed(p, up)
  \/ sendSummaryEmail_logFailed(p, up)

\* the handler in slot p resumes from the await it is suspended at
RunResume(p) ==
  \E up \in BOOLEAN :
    \/ updateSchedule_read(p, up)
    \/ updateSchedule_cont(p)
    \/ updateSchedule_write(p, up)
    \/ updateSchedule_log(p, up)
    \/ Run_steps(p, up)
    \/ Generate_steps(p, up)
    \/ Pipeline_steps(p, up)
    \/ Deliver_steps(p, up)

\* the trigger fires, a run-now request arrives, a handler resumes or ends
RunStep ==
  \E p \in Procs :
    \/ \E t \in TaskIds : runScheduledTask(p, t)
    \/ runNow(p)
    \/ Settle(p)
    \/ RunResume(p)

RunNext == Tick \/ RunStep

RunSpec == RunInit /\ [][RunNext]_vars

\* The same with the clock standing still, and every suspended handler is
\* resumed: each promise it awaits settles.
LockSpec == RunInit /\ [][RunStep]_vars /\ \A p \in Procs : WF_vars(RunResume(p))

(***************************************************************************)
(* Properties of the runs.                                                 *)
(***************************************************************************)
StagePcs ==
  {"g_logstart", "g_getfeeds", "g_check", "g_ai", "g_create", "g_logok", "g_catch",
   "s_get", "s_getset", "i_getset", "i_verify", "s_send", "s_updok", "s_logok",
   "s_catch", "s_logerr"}
DeliverPcs ==
  {"s_get", "s_getset", "i_getset", "i_verify", "s_send", "s_updok", "s_logok",
   "s_catch", "s_logerr"}

IsRun(p) == loc[p].op \in {"cron", "runNow"}

\* the run in slot p is inside collect -> generate -> deliver
Executing(p) == IsRun(p) /\ pc[p] \in StagePcs

\* C1: at any moment at most one pipeline run (collect -> generate -> deliver)
\* is executing, whatever the interleaving of trigger firings and runNow requests.
C1_SingleFlight == Cardinality({p \in Procs : Executing(p)}) <= 1

\* the scheduled run in slot p holds the run lock
HoldsLock(p) ==
  loc[p].op = "cron" /\ pc[p] \notin {"idle", "done", "rs_skiplog"}

\* C2: the run lock is set only while a scheduled run that acquired it is in
\* progress, and once set it is eventually released, however the run settles
\* (success, reported failure, exception).
C2_LockReleased ==
  /\ [](isRunning => \E p \in Procs : HoldsLock(p))
  /\ (isRunning ~> ~isRunning)

\* a scheduled run has ended in its catch block and the lock is free
C2_Witness ==
  \E p \in Procs :
    /\ pc[p] = "done" /\ loc[p].op = "cron" /\ loc[p].res \in {"error", "threw"}
    /\ ~isRunning

\* the run in slot p completes in this step, digest created and delivered
Completes(p) ==
  /\ pc[p] \in {"rs_log_done", "rn_log_done"} /\ pc'[p] = "done"
  /\ loc'[p].res = "ok"

\* C4: when a run completes, started by the trigger or by runNow, lastRun is
\* the completion time and nextRun that time plus the configured frequency
\* (stated for the runs that succeed).
C4_StampedAtCompletion ==
  [][\A p \in Procs :
       Completes(p) =>
         /\ scheduleSettings'.lastRun = now'
         /\ scheduleSettings'.nextRun =
              getNextRunTime(now', scheduleSettings'.frequencyHours)]_vars

\* C6: deliver is invoked only with the id of a digest created in the same
\* run, after generation reported success, and no exception escapes
\* runScheduledTask or runNow.
C6_StagesAndNoEscape ==
  \A p \in Procs :
    IsRun(p) =>
      /\ pc[p] \in DeliverPcs =>
           /\ loc[p].sid \in 1..Len(summaries)
           /\ loc[p].gen # NoGen
           /\ loc[p].processed # <<>>
      /\ pc[p] = "done" => loc[p].res # "threw"

\* the rows of error severity among the activity-log rows `logs`
Errors(logs) == Cardinality({k \in 1..Len(logs) : logs[k] = "error"})

\* the scheduled run of slot p ends in this step, its generation having failed
\* ("rs_log_failed") or its delivery ("rs_log_emailfail")
EndsFailed(p) ==
  /\ loc[p].op = "cron" /\ pc[p] \in {"rs_log_failed", "rs_log_emailfail"}
  /\ pc'[p] = "done" /\ loc'[p].res \in {"failed", "emailFailed"}

\* C17: a failure path of a run writes exactly one activity-log row of error
\* severity: a scheduled run whose generation fails, and one whose delivery
\* fails, has appended one such row when it ends.
C17_OneFailureEntry ==
  [][\A p \in Procs :
       EndsFailed(p) => Errors(Append(loc[p].logs, "error")) = 1]_vars

\* runNow returns its result in this step, in slot p
RunNowReturns(p) == loc[p].op = "runNow" /\ pc[p] # "done" /\ pc'[p] = "done"

\* C29: runNow returns success = true only when the run has created a digest
\* and delivered it; when the digest is created and its delivery fails, the
\* result of the manual run is a failure.
C29_RunNowNeedsDelivery ==
  [][\A p \in Procs :
       RunNowReturns(p) =>
         /\ loc'[p].res = "ok" =>
              /\ pc[p] = "rn_log_done" /\ loc[p].sent = "ok"
              /\ loc[p].sid \in 1..Len(summaries) /\ summaries[loc[p].sid].emailSent
         /\ pc[p] \in {"s_catch", "s_logerr"} => loc'[p].res = "failed"]_vars

(***************************************************************************)
(* The server up and idle: initialize() has found the schedule disabled.   *)
(***************************************************************************)
Quiet ==
  /\ now = 0
  /\ serving = TRUE
  /\ task = NoTask
  /\ armed = {}
  /\ taskExpr = [t \in TaskIds |-> ""]
  /\ isRunning = FALSE
  /\ scheduleSettings = Schedule(FALSE, 1)
  /\ transporter = NoTransport
  /\ pc = [p \in Procs |-> "idle"]
  /\ loc = [p \in Procs |-> LocInit]

(***************************************************************************)
(* The feed checks: POST /api/feeds/:id/check on two feeds and on an id    *)
(* that has no row, every outcome of the parser and one storage fault.     *)
(***************************************************************************)
FeedInit ==
  /\ Quiet
  /\ feeds = [id \in FeedIds |->
                IF id = "f1" THEN Feed("Blog", <<"blog", "feed">>, TRUE, TRUE)
                ELSE Feed("News", <<"news", "rss">>, TRUE, TRUE)]
  /\ summaries = <<>>
  /\ emailSettings = NoMailSettings

FeedNext ==
  \/ Tick
  \/ \E id \in FeedIds \cup {"gone"}, outs \in AllOuts, altOk \in BOOLEAN,
        items \in FewItems(now), ups \in SomeUps :
       checkFeedRequest("h1", id, outs, altOk, items, ups)
  \/ Settle("h1")

FeedSpec == FeedInit /\ [][FeedNext]_vars

\* the first parseURL call on the primary url that succeeds, 0 if none does
FirstSuccess(outs) ==
  IF \E k \in DOMAIN outs : outs[k]
  THEN CHOOSE k \in DOMAIN outs : outs[k] /\ \A j \in 1..(k - 1) : ~outs[j]
  ELSE 0

\* a checkFeed call on an existing feed has returned in slot p
CheckedFeed(p) ==
  /\ pc[p] = "done" /\ loc[p].op = "checkFeed"
  /\ loc[p].check.id \in DOMAIN feeds
  /\ loc[p].check.ups.get

\* C9: parseFeed calls the primary url at most retries+1 times and stops at
\* the first call that succeeds, whose feed it returns; when the url fails
\* twice and succeeds the third time, checkFeed leaves the feed active with
\* lastError cleared.
C9_RetriesThenSuccess ==
  \A p \in Procs :
    CheckedFeed(p) =>
      LET c == loc[p].check
      IN  /\ c.calls <= DefaultRetries + 1
          /\ FirstSuccess(c.outs) # 0 =>
               c.parsed /\ ~c.alt /\ c.calls = FirstSuccess(c.outs)
          /\ (c.outs = <<FALSE, FALSE, TRUE>> /\ c.ups = AllUp) =>
               /\ c.success
               /\ feeds[c.id].status = "active"
               /\ feeds[c.id].lastError = NULL

\* a feed that was in error has been checked, the url failing twice and
\* succeeding the third time
C9_Witness ==
  \E p \in Procs :
    /\ CheckedFeed(p)
    /\ loc[p].check.outs = <<FALSE, FALSE, TRUE>> /\ loc[p].check.ups = AllUp
    /\ loc[p].check.calls = 3
    /\ feeds[loc[p].check.id].lastChecked > 0

\* C10: for every feed lastError is non-empty iff status = error; a check that
\* succeeds leaves status active, lastError cleared and lastChecked stamped,
\* a check that reports a failure leaves status error, lastError set to the
\* cause and lastChecked stamped.
C10_HealthConsistent ==
  /\ \A id \in DOMAIN feeds : Truthy(feeds[id].lastError) <=> feeds[id].status = "error"
  /\ \A p \in Procs :
       (pc[p] = "done" /\ loc[p].op = "checkFeed" /\ loc[p].check.id \in DOMAIN feeds
          /\ ~loc[p].check.threw) =>
         LET c == loc[p].check
             f == feeds[c.id]
         IN  /\ f.lastChecked = c.at
             /\ IF c.success
                THEN f.status = "active" /\ f.lastError = NULL
                ELSE f.status = "error" /\ f.lastError = loc[p].err /\ Truthy(f.lastError)

\* a feed in error has been checked again with success
C10_Witness ==
  \E p \in Procs :
    /\ pc[p] = "done" /\ loc[p].op = "checkFeed" /\ loc[p].check.success
    /\ loc[p].check.at > 0
    /\ feeds[loc[p].check.id].status = "active"
    /\ \E id \in DOMAIN feeds : feeds[id].status = "error"

\* C11: every checkFeed call (the feed parses, the parse fails, the id has no
\* row) returns a result to its caller, never an exception, and has appended
\* exactly one activity-log row.
C11_CheckFeedReports ==
  \A p \in Procs :
    (pc[p] = "done" /\ loc[p].op = "checkFeed") =>
      /\ loc[p].res # "threw"
      /\ Len(loc[p].logs) = 1

(***************************************************************************)
(* The urls: feeds whose url ends with /feed or not, and has a /feed       *)
(* before the last one or not, are checked with every outcome of the       *)
(* parser.                                                                 *)
(***************************************************************************)
Urls == {<<"blog", "feed">>, <<"news", "rss">>, <<"feed", "blog", "feed">>,
         <<"feed", "news">>}

ParseInit ==
  /\ Quiet
  /\ feeds \in {[id \in {"f1"} |-> Feed("Blog", url, TRUE, TRUE)] : url \in Urls}
  /\ summaries = <<>>
  /\ emailSettings = NoMailSettings

ParseNext ==
  \/ Tick
  \/ \E outs \in AllOuts, altOk \in BOOLEAN, items \in FewItems(now), ups \in SomeUps :
       checkFeedRequest("h1", "f1", outs, altOk, items, ups)
  \/ Settle("h1")

ParseSpec == ParseInit /\ [][ParseNext]_vars

\* the url with its trailing /feed replaced by /rss
TrailingFeedToRss(url) == SubSeq(url, 1, Len(url) - 1) \o <<"rss">>

\* C22: parseFeed tries the alternative url only after all retries+1 calls on
\* the primary url have failed and only when the url ends with /feed; it
\* then makes one call, on the url with that trailing /feed replaced by /rss,
\* and returns null when this call fails too.
C22_AlternateUrl ==
  \A p \in Procs :
    CheckedFeed(p) =>
      LET c == loc[p].check
          url == feeds[c.id].url
      IN  /\ c.alt <=> (FirstSuccess(c.outs) = 0 /\ endsWithFeed(url))
          /\ c.alt => c.calls = DefaultRetries + 1
          /\ (c.alt /\ c.altOk) => (c.parsed /\ c.fetched = TrailingFeedToRss(url))
          /\ (c.alt /\ ~c.altOk) => ~c.parsed

(***************************************************************************)
(* The deliveries: POST /api/summaries/:id/send-email on a stored digest   *)
(* and on an id that has no row, two requests at a time.                   *)
(***************************************************************************)
StoredDigest ==
  NewSummary([LocInit EXCEPT !.gen = buildFallbackSummary(<<"Blog">>, 0),
                             !.articles = <<"Blog">>, !.processed = <<"f1">>])

MailInit ==
  /\ Quiet
  /\ feeds = [id \in {"f1"} |-> Feed("Blog", <<"blog", "feed">>, TRUE, TRUE)]
  /\ summaries = <<StoredDigest>>
  /\ emailSettings \in {NoMailSettings, MailSettings(TRUE, 1), MailSettings(FALSE, 1)}

MailNext ==
  \E p \in Procs :
    \/ \E id \in 1..2 : sendEmail(p, id)
    \/ \E up \in BOOLEAN : Deliver_steps(p, up)
    \/ Settle(p)

MailSpec == MailInit /\ [][MailNext]_vars

\* C7: no digest has emailSent = true together with a non-empty emailError,
\* whatever deliveries ran on it and however they overlapped.
C7_SentExcludesError ==
  \A i \in 1..Len(summaries) :
    ~(summaries[i].emailSent = TRUE /\ Truthy(summaries[i].emailError))

\* two deliveries of the same digest overlap: one has recorded the dispatch,
\* then the other has recorded its failure
C7_Witness ==
  \E p, q \in Procs :
    /\ p # q /\ loc[p].sid = 1 /\ loc[q].sid = 1
    /\ pc[p] = "s_logok" /\ pc[q] = "s_logerr"
    /\ summaries[1].emailSent = FALSE /\ Truthy(summaries[1].emailError)

\* the delivery of slot p calls initializeTransporter in this step
StartsInit(p) == pc[p] = "s_getset" /\ pc'[p] = "i_getset"

\* the initialization of slot p fails in this step
InitFails(p) == pc[p] \in {"i_getset", "i_verify"} /\ pc'[p] = "s_catch"

\* the delivery of slot p reaches the sendMail call in this step
Dispatches(p) ==
  /\ pc[p] \in {"s_getset", "i_verify"}
  /\ \/ pc'[p] = "s_send"
     \/ pc'[p] = "s_catch" /\ loc'[p].err = "Cannot read properties of null"

\* C26: initializeTransporter is called only by a delivery that finds no
\* transport set, a delivery that finds one dispatches through it; a failed
\* verification leaves no transport set and fails the delivery; no delivery
\* calls sendMail on an unset transport, also when deliveries overlap.
C26_LazyTransport ==
  [][\A p \in Procs :
       /\ StartsInit(p) => ~transporter.set
       /\ (pc[p] = "s_getset" /\ transporter.set /\ pc'[p] \notin {"s_getset", "s_catch"}) =>
            (pc'[p] = "s_send" /\ loc'[p].via = transporter /\ transporter' = transporter)
       /\ (pc[p] = "i_verify" /\ InitFails(p)) =>
            (~transporter'.set /\ loc'[p].err = "Failed to initialize email service")
       /\ Dispatches(p) =>
            (pc'[p] = "s_send" /\ loc'[p].via.set /\ loc'[p].via = transporter')]_vars

\* a delivery has written its outcome on the digest: emailSent / emailError
\* are no longer the pair the digest was created with
DeliveryRecorded(d) == d.emailSent = TRUE \/ Truthy(d.emailError)

\* C15: once a delivery has written the emailSent / emailError pair of a
\* digest, no later step (of the same or of another delivery, run or request)
\* changes that pair.
C15_OutcomeWrittenOnce ==
  [][\A i \in 1..Len(summaries) :
       DeliveryRecorded(summaries[i]) =>
         /\ summaries'[i].emailSent = summaries[i].emailSent
         /\ summaries'[i].emailError = summaries[i].emailError]_vars

\* the emailSent / emailError pair of digest id is the one of `updates`
Recorded(ds, id, updates) ==
  ds[id].emailSent = updates.emailSent /\ ds[id].emailError = updates.emailError

\* C16: sendSummaryEmail never throws to its caller.  When sendMail has
\* resolved it sets emailSent = true and emailError empty, logs one info row
\* and returns success; on any failure it sets emailSent = false and emailError
\* to the cause when the digest exists, logs one error row and returns
\* success = false with that cause.
C16_DeliveryReports ==
  [][\A p \in Procs :
       (loc[p].op = "sendEmail" /\ pc'[p] # pc[p]) =>
         /\ pc[p] = "s_updok" =>
              pc'[p] = "s_logok" /\ Recorded(summaries', loc[p].sid, MarkSent)
         /\ pc[p] = "s_logok" =>
              pc'[p] = "done" /\ loc'[p].res = "ok" /\ loc[p].logs = <<>>
         /\ pc[p] = "s_catch" =>
              /\ pc'[p] = "s_logerr"
              /\ loc[p].sid \in 1..Len(summaries) =>
                   Recorded(summaries', loc[p].sid, MarkFailed(loc[p].err))
         /\ pc[p] = "s_logerr" =>
              pc'[p] = "done" /\ loc'[p].res = "failed" /\ loc[p].logs = <<>>
         /\ pc'[p] = "done" => loc'[p].res # "threw"]_vars

(***************************************************************************)
(* The generator: POST /api/summaries/generate with every response of the  *)
(* text-generation call.                                                   *)
(***************************************************************************)
GenerateInit ==
  /\ Quiet
  /\ feeds = [id \in {"f1"} |-> Feed("Blog", <<"blog", "feed">>, TRUE, TRUE)]
  /\ summaries = <<>>
  /\ emailSettings = NoMailSettings

GenerateNext ==
  \E p \in Procs :
    \/ generateRequest(p)
    \/ \E up \in BOOLEAN :
         \/ Generate_steps(p, up)
         \/ generateSummary_create(p, up)
         \/ generateSummary_logDone(p, up)
         \/ \E outs \in SteadyOuts,
               items \in {<<>>, <<FreshItem(now)>>, <<FreshItem(now), UndatedItem>>} :
              generateSummary_check(p, outs, FALSE, items, [AllUp EXCEPT !.get = up])
    \/ \E resp \in Responses : generateSummary_summarize(p, resp)
    \/ Settle(p)

GenerateSpec == GenerateInit /\ [][GenerateNext]_vars

\* a text with something else than white space in it
NonEmpty(text) == Trim(text) # <<>>

Usable(d) == NonEmpty(d.title) /\ NonEmpty(d.excerpt) /\ NonEmpty(d.content)

\* C8: for every non-empty article list and every outcome of the
\* text-generation call, createAISummary yields a title, an excerpt and a body
\* that are all non-empty, and so is every digest that is stored.
C8_DigestUsable ==
  /\ \A p \in Procs : pc[p] = "g_create" => loc[p].articles # <<>> /\ Usable(loc[p].gen)
  /\ \A i \in 1..Len(summaries) : Usable(summaries[i])

\* one digest made of the fallback texts and one with the model's body are stored
C8_Witness ==
  /\ Len(summaries) = 2
  /\ summaries[1].content = buildFallbackSummary(<<"Blog">>, 0).content
  /\ summaries[2].content = <<"Body">>
  /\ summaries[2].title = buildFallbackSummary(<<"Blog", "Blog">>, 0).title

\* createAISummary has returned in slot p
Summarized(p) == pc[p] = "g_create" /\ loc[p].reply # NoReply

\* the response carries no text to extract
NoText(r) == r.choice # "message" \/ rawContent(r) = <<>>

\* the text does not parse as a JSON object
NotAnObject(r) == ~r.json.valid \/ r.json.kind # "object"

\* a field of the parsed object is missing or empty
Blank(v) == ~v.isString \/ Trim(v.text) = <<>>

\* C24: createAISummary returns the fallback digest when the text-generation
\* call throws, the response carries no extractable text, the text does not
\* parse as a JSON object, or the parsed body is missing, empty or matches
\* the placeholder; otherwise it returns the body of the model, with the
\* title and the excerpt of the model unless that field is missing or empty,
\* which is then the one of the fallback.
C24_FallbackPolicy ==
  \A p \in Procs :
    Summarized(p) =>
      LET r == loc[p].reply
          fallback == buildFallbackSummary(loc[p].articles, now)
      IN  IF \/ r.call = "throws" \/ NoText(r) \/ NotAnObject(r)
             \/ Blank(r.json.content) \/ MatchesPlaceholder(r.json.content.text)
          THEN loc[p].gen = fallback
          ELSE /\ loc[p].gen.content = Trim(r.json.content.text)
               /\ loc[p].gen.title = IF Blank(r.json.title) THEN fallback.title
                                     ELSE Trim(r.json.title.text)
               /\ loc[p].gen.excerpt = IF Blank(r.json.excerpt) THEN fallback.excerpt
                                       ELSE Trim(r.json.excerpt.text)

\* the body of the model is returned under the title and the excerpt of the
\* fallback
C24_Witness ==
  \E p \in Procs :
    /\ Summarized(p)
    /\ loc[p].reply = Replies(Obj(Str(<<Space>>), Str(<<Space, "Body", Space>>), Missing))
    /\ loc[p].gen.content = <<"Body">>
    /\ loc[p].gen.title = buildFallbackSummary(loc[p].articles, now).title
    /\ loc[p].gen.excerpt = buildFallbackSummary(loc[p].articles, now).excerpt

\* the generateSummary call of slot p returns {success: true, summaryId}
ReportsSuccess(p) == pc[p] = "g_logok" /\ pc'[p] \notin {"g_logok", "g_catch"}

\* the generateSummary call of slot p returns {success: false, error}
ReportsFailure(p) ==
  /\ pc[p] = "g_catch"
  /\ \/ pc'[p] = "done" /\ loc'[p].res = "failed"
     \/ pc'[p] = "rs_log_failed"

\* C14: a generateSummary invocation that succeeds has created exactly one
\* digest, with articleCount the number of collected articles, emailSent false
\* and emailError empty; an invocation that reports failure has created none.
C14_OneDigestPerSuccess ==
  [][/\ summaries' # summaries =>
          \E p \in Procs : /\ pc[p] = "g_create" /\ loc[p].sid = 0
                           /\ loc'[p].sid = Len(summaries) + 1
                           /\ Len(summaries') = Len(summaries) + 1
                           /\ SubSeq(summaries', 1, Len(summaries)) = summaries
     /\ \A p \in Procs :
          /\ ReportsSuccess(p) =>
               /\ loc[p].sid \in 1..Len(summaries)
               /\ summaries[loc[p].sid].articleCount = Len(loc[p].articles)
               /\ summaries[loc[p].sid].emailSent = FALSE
               /\ summaries[loc[p].sid].emailError = NULL
          /\ ReportsFailure(p) => loc[p].sid = 0]_vars

(***************************************************************************)
(* The collection: POST /api/summaries/generate over two feeds, each       *)
(* active or not and included or not, every outcome of a fetch and one     *)
(* storage fault per call.                                                 *)
(***************************************************************************)
Flags == {<<TRUE, TRUE>>, <<TRUE, FALSE>>, <<FALSE, TRUE>>}

CollectInit ==
  /\ Quiet
  /\ \E a \in Flags, b \in Flags :
       feeds = [id \in FeedIds |->
                  IF id = "f1" THEN Feed("Blog", <<"blog", "feed">>, a[1], a[2])
                  ELSE Feed("News", <<"news", "rss">>, b[1], b[2])]
  /\ summaries = <<>>
  /\ emailSettings = NoMailSettings

CollectNext ==
  \/ generateRequest("h1")
  \/ \E up \in BOOLEAN :
       \/ Generate_steps("h1", up)
       \/ generateSummary_create("h1", up)
       \/ generateSummary_logDone("h1", up)
  \/ \E outs \in SteadyOuts, items \in FewItems(now), ups \in SomeUps :
       generateSummary_check("h1", outs, FALSE, items, ups)
  \/ \E resp \in {CallThrows, GoodResponse} : generateSummary_summarize("h1", resp)
  \/ Settle("h1")

CollectSpec == CollectInit /\ [][CollectNext]_vars

\* b continues a: what was collected is kept
Extends(b, a) == Len(b) >= Len(a) /\ SubSeq(b, 1, Len(a)) = a

\* C12: collection fetches exactly the feeds that are active and included; it
\* fails iff that set is empty or no eligible feed yields a usable article, the
\* failure being reported (success = false, no digest, nothing thrown); a
\* failed fetch of one feed leaves the articles of the others collected.
C12_CollectionOutcome ==
  [][\A p \in Procs :
       /\ (pc[p] = "g_getfeeds" /\ pc'[p] # "g_getfeeds") =>
            IF activeFeeds(feeds) = <<>>
            THEN pc'[p] = "g_catch"
            ELSE pc'[p] = "g_check" /\ loc'[p].queue = activeFeeds(feeds)
       /\ (pc[p] = "g_check" /\ loc'[p] # loc[p]) =>
            /\ Extends(loc'[p].articles, loc[p].articles)
            /\ pc'[p] = "g_catch" <=> (Len(loc[p].queue) = 1 /\ loc'[p].articles = <<>>)
       /\ (pc[p] = "g_catch" /\ loc[p].sid = 0 /\ pc'[p] = "done") =>
            loc'[p].res = "failed" /\ summaries' = summaries]_vars

\* the feeds that contributed an article to allArticles
Contributors(l) ==
  {id \in DOMAIN feeds : \E k \in 1..Len(l.articles) : l.articles[k] = feeds[id].name}

\* C13: processedFeedIds is exactly the set of eligible feeds that contributed
\* at least one usable article after filtering, and the sourceCount of the
\* digest is the number of those feeds.
C13_ProcessedAreContributors ==
  \A p \in Procs :
    pc[p] \in {"g_ai", "g_create", "g_logok"} =>
      /\ {loc[p].processed[k] : k \in 1..Len(loc[p].processed)} = Contributors(loc[p])
      /\ Len(loc[p].processed) = Cardinality(Contributors(loc[p]))
      /\ pc[p] = "g_logok" =>
           summaries[loc[p].sid].sourceCount = Cardinality(Contributors(loc[p]))

(***************************************************************************)
(* The preconditions: the requests that generate, retry, deliver and test, *)
(* one at a time, with or without an eligible feed, with the mail settings *)
(* absent, inactive or active, on the id of a stored digest and on an id   *)
(* that has no row.                                                        *)
(***************************************************************************)
PreconditionInit ==
  /\ Quiet
  /\ \E active \in BOOLEAN :
       feeds = [id \in {"f1"} |-> Feed("Blog", <<"blog", "feed">>, active, TRUE)]
  /\ summaries = <<StoredDigest>>
  /\ emailSettings \in {NoMailSettings, MailSettings(TRUE, 1), MailSettings(FALSE, 1)}

PreconditionNext ==
  \/ generateRequest("h1")
  \/ testEmailRequest("h1")
  \/ \E id \in 1..2 : retryRequest("h1", id) \/ sendEmail("h1", id)
  \/ \E up \in BOOLEAN :
       \/ retrySummary_getSummary("h1", up)
       \/ Generate_steps("h1", up)
       \/ generateSummary_create("h1", up)
       \/ generateSummary_logDone("h1", up)
       \/ \E items \in {<<>>, <<FreshItem(now)>>} :
            generateSummary_check("h1", <<TRUE, TRUE, TRUE>>, FALSE, items,
                                  [AllUp EXCEPT !.get = up])
       \/ Deliver_steps("h1", up)
       \/ sendTestEmail_getSettings("h1", up)
       \/ sendTestEmail_logSent("h1", up)
       \/ sendTestEmail_catch("h1", up)
  \/ generateSummary_summarize("h1", GoodResponse)
  \/ \E delivered \in BOOLEAN : sendTestEmail_send("h1", delivered)
  \/ Settle("h1")

PreconditionSpec == PreconditionInit /\ [][PreconditionNext]_vars

\* the messages of the precondition failures
Preconditions ==
  {"No active feeds available for summarization", "Email settings not configured",
   "Summary not found"}

\* C18: a precondition failure (no eligible feed in generateSummary, no active
\* mail settings in sendSummaryEmail and sendTestEmail, digest not found in
\* sendSummaryEmail and retrySummary) is returned as a failure result, is
\* recorded in the activity log by one row of error severity, and is not thrown.
C18_PreconditionsReported ==
  /\ [](\A p \in Procs :
         (pc[p] = "done" /\ loc[p].op = "retry" /\ loc[p].err \in Preconditions) =>
           loc[p].res = "failed" /\ Errors(loc[p].logs) = 1)
  /\ [][\A p \in Procs :
         (loc[p].err \in Preconditions /\ pc'[p] # pc[p]) =>
           /\ pc[p] = "s_catch" => pc'[p] = "s_logerr"
           /\ pc[p] \in {"g_catch", "s_logerr", "t_catch"} =>
                pc'[p] = "done" /\ loc'[p].res = "failed"]_vars

(***************************************************************************)
(* The end-to-end scenario: two active and included feeds that each return *)
(* three qualifying articles, a text-generation call that fails, a valid   *)
(* and active mail configuration whose transport verifies and sends.  The  *)
(* storage calls of a feed check resolve, any other may reject.  The runs, *)
(* scheduled or manual, come one at a time.                                *)
(***************************************************************************)
\* three qualifying items, with or without one that the filters drop
ThreeQualifying(t) ==
  {<<FreshItem(t), FreshItem(t), UndatedItem>>,
   <<FreshItem(t), StaleItem(t), UndatedItem, BlankItem(t), FreshItem(t)>>}

\* the text-generation call throws, answers nothing or nothing usable
FailingResponses ==
  {CallThrows,
   Response("ok", "none", "other", <<>>, NoJson),
   Replies(NoJson),
   Replies(Obj(Str(<<"Title">>), Str(<<Placeholder>>), Missing))}

ScenarioInit ==
  /\ Boot
  /\ scheduleSettings = Schedule(TRUE, 1)
  /\ feeds = [id \in FeedIds |->
                IF id = "f1" THEN Feed("Blog", <<"blog", "feed">>, TRUE, TRUE)
                ELSE Feed("News", <<"news", "rss">>, TRUE, TRUE)]
  /\ summaries = <<>>
  /\ emailSettings = MailSettings(TRUE, 1)

ScenarioNext ==
  \/ Tick
  \/ \E t \in TaskIds : runScheduledTask("h1", t)
  \/ runNow("h1")
  \/ Settle("h1")
  \/ updateSchedule_cont("h1")
  \/ \E up \in BOOLEAN :
       \/ updateSchedule_read("h1", up)
       \/ updateSchedule_write("h1", up)
       \/ updateSchedule_log("h1", up)
       \/ runScheduledTask_logStart("h1", up)
       \/ runScheduledTask_getSettings("h1", up)
       \/ runScheduledTask_putSettings("h1", up)
       \/ runScheduledTask_logOutcome("h1", up)
       \/ runScheduledTask_catch("h1", up)
       \/ runNow_logStart("h1", up)
       \/ runNow_logDone("h1", up)
       \/ Generate_steps("h1", up)
       \/ generateSummary_create("h1", up)
       \/ generateSummary_logDone("h1", up)
       \/ sendSummaryEmail_getSummary("h1", up)
       \/ sendSummaryEmail_getSettings("h1", up)
       \/ initializeTransporter_create("h1", TRUE, up)
       \/ sendSummaryEmail_markSent("h1", up)
       \/ sendSummaryEmail_logSent("h1", up)
       \/ sendSummaryEmail_markFailed("h1", up)
       \/ sendSummaryEmail_logFailed("h1", up)
  \/ \E outs \in {<<TRUE, TRUE, TRUE>>, <<FALSE, FALSE, TRUE>>},
        items \in ThreeQualifying(now) :
       generateSummary_check("h1", outs, FALSE, items, AllUp)
  \/ \E resp \in FailingResponses : generateSummary_summarize("h1", resp)
  \/ initializeTransporter_verify("h1", TRUE)
  \/ sendSummaryEmail_send("h1", TRUE)

ScenarioSpec == ScenarioInit /\ [][ScenarioNext]_vars

\* the digest of the run in slot p
DigestOf(p) == summaries[loc[p].sid]

\* C19: in the scenario a run collects 6 articles with 2 processed feed ids,
\* creates one fallback digest with articleCount = 6 and sourceCount = 2, and
\* once the delivery has returned that digest has emailSent = true and an
\* empty emailError; the delivery fails only when a storage call rejects
\* (getEmailSettings of initializeTransporter included).
C19_EndToEnd ==
  \A p \in Procs :
    IsRun(p) =>
      /\ pc[p] \in {"g_ai", "g_create", "g_logok"} \cup DeliverPcs
            \cup {"rs_log_done", "rn_log_done", "rs_log_emailfail"} =>
           Len(loc[p].articles) = 6 /\ loc[p].processed = <<"f1", "f2">>
      /\ pc[p] \in {"g_create", "g_logok"} =>
           loc[p].gen.content = buildFallbackSummary(loc[p].articles, 0).content
      /\ pc[p] = "g_logok" =>
           /\ loc[p].sid = Len(summaries)
           /\ DigestOf(p).articleCount = 6 /\ DigestOf(p).sourceCount = 2
           /\ DigestOf(p).content = buildFallbackSummary(loc[p].articles, 0).content
           /\ DigestOf(p).emailSent = FALSE /\ DigestOf(p).emailError = NULL
      /\ pc[p] \in {"rs_log_done", "rn_log_done"} =>
           /\ DigestOf(p).emailSent = TRUE /\ DigestOf(p).emailError = NULL
           /\ DigestOf(p).articleCount = 6 /\ DigestOf(p).sourceCount = 2
      /\ pc[p] \in {"s_catch", "s_logerr", "rs_log_emailfail"} =>
           loc[p].err \in {DbError, "Failed to initialize email service"}

\* a scheduled run of the scenario has delivered its digest
C19_Witness ==
  /\ pc["h1"] = "rs_log_done"
  /\ Len(summaries) = 1
  /\ summaries[1].articleCount = 6 /\ summaries[1].sourceCount = 2
  /\ summaries[1].emailSent = TRUE /\ summaries[1].emailError = NULL
  /\ summaries[1].content = buildFallbackSummary(loc["h1"].articles, 0).content

(***************************************************************************)
(* The arming: the schedule is edited with every frequency the schedule    *)
(* page offers, one request at a time, while the clock advances.           *)
(***************************************************************************)
AllFreqs == {1, 2, 4, 6, 8, 12, 24}

ArmInit ==
  /\ Boot
  /\ scheduleSettings \in {Schedule(TRUE, f) : f \in AllFreqs}
  /\ feeds = [id \in {"f1"} |-> Feed("Blog", <<"blog", "feed">>, FALSE, TRUE)]
  /\ summaries = <<>>
  /\ emailSettings = NoMailSettings

ArmNext ==
  \/ Tick
  \/ \E enabled \in BOOLEAN, hours \in AllFreqs : postSchedule("h1", enabled, hours)
  \/ \E up \in BOOLEAN : Schedule_steps("h1", up)
  \/ Settle("h1")

ArmSpec == ArmInit /\ [][ArmNext]_vars

\* updateSchedule arms the trigger in this step, in slot p
Arms(p) == pc[p] = "u_cont" /\ pc'[p] = "u_write"

\* updateSchedule persists the schedule in this step, in slot p
Persists(p) == pc[p] = "u_write" /\ pc'[p] = "u_log_upd"

\* C20: for every frequency f of {1,2,4,6,8,12,24}, when updateSchedule arms
\* the trigger the nextRun it computes is the arming time plus f hours, the
\* trigger it arms has the cron expression of f, and that nextRun is the one
\* it persists, together with f.
C20_NextRunAtArming ==
  [][\A p \in Procs :
       LET f == loc[p].settings.frequencyHours
       IN  /\ Arms(p) =>
                /\ f \in AllFreqs
                /\ task' \in armed' /\ taskExpr'[task'] = getCronExpression(f)
                /\ loc'[p].settings.frequencyHours = f
                /\ loc'[p].settings.nextRun = now + f * HourMs
           /\ Persists(p) =>
                /\ scheduleSettings'.nextRun = loc[p].settings.nextRun
                /\ scheduleSettings'.frequencyHours = f]_vars

\* a trigger was armed at time 0 for every 24 hours and the schedule is
\* persisted one hour later: nextRun is 24 hours after the arming
C20_Witness ==
  \E p \in Procs :
    /\ pc[p] = "u_log_upd" /\ now = HourMs
    /\ armed # {} /\ taskExpr[task] = getCronExpression(24)
    /\ scheduleSettings.frequencyHours = 24
    /\ scheduleSettings.nextRun = 24 * HourMs

(***************************************************************************)
(* The cadence of a cron expression.  The expressions have five fields,    *)
(* minute hour day month weekday; the minute field is 0 in all of them, so *)
(* a trigger fires at most once an hour, on the hour, and the hour field   *)
(* decides in which hours of the day: '*' in all, '*/n' in those that n    *)
(* divides, '0' at midnight.                                               *)
(***************************************************************************)
HoursWatched == 72     \* hours of wall clock the cadence is observed over

HourField(expr) ==
  IF expr = "0 * * * *" THEN [every |-> TRUE, step |-> 1]
  ELSE IF expr = "0 */2 * * *" THEN [every |-> TRUE, step |-> 2]
  ELSE IF expr = "0 */4 * * *" THEN [every |-> TRUE, step |-> 4]
  ELSE IF expr = "0 */6 * * *" THEN [every |-> TRUE, step |-> 6]
  ELSE IF expr = "0 */8 * * *" THEN [every |-> TRUE, step |-> 8]
  ELSE IF expr = "0 */12 * * *" THEN [every |-> TRUE, step |-> 12]
  ELSE [every |-> FALSE, step |-> 0]      \* '0 0 * * *': the hour 0 only

\* the trigger fires in hour h, counted from a midnight
CronFires(expr, h) ==
  LET f == HourField(expr)
      hourOfDay == h % DayHours
  IN  IF f.every THEN hourOfDay % f.step = 0 ELSE hourOfDay = f.step

FiringHours(expr) == {h \in 0..(HoursWatched - 1) : CronFires(expr, h)}

\* the firings are exactly n hours apart, days on end
EveryNHours(expr, n) ==
  /\ n > 0
  /\ FiringHours(expr) = {h \in 0..(HoursWatched - 1) : h % n = 0}

\* frequencies the schedule page does not offer but a request can carry
OtherFreqs == {0, 3, 5, 16, 48}

CronInit ==
  /\ Boot
  /\ scheduleSettings \in {Schedule(TRUE, f) : f \in AllFreqs \cup OtherFreqs}
  /\ feeds = [id \in {"f1"} |-> Feed("Blog", <<"blog", "feed">>, FALSE, TRUE)]
  /\ summaries = <<>>
  /\ emailSettings = NoMailSettings

CronNext ==
  \/ \E enabled \in BOOLEAN, hours \in AllFreqs \cup OtherFreqs :
       postSchedule("h1", enabled, hours)
  \/ \E up \in BOOLEAN : Schedule_steps("h1", up)
  \/ Settle("h1")

CronSpec == CronInit /\ [][CronNext]_vars

\* the cadence the schedule promises for a frequency
Cadence(f) == IF f \in AllFreqs THEN f ELSE 4

\* C21: the cron expression updateSchedule arms the trigger with fires
\* exactly once every f hours when the frequency f is one of 1, 2, 4, 6, 8,
\* 12, 24, and exactly once every 4 hours for every other frequency.
C21_CronCadence ==
  [][\A p \in Procs :
       Arms(p) =>
         /\ task' \in armed'
         /\ taskExpr'[task'] = getCronExpression(loc[p].settings.frequencyHours)
         /\ EveryNHours(taskExpr'[task'], Cadence(loc[p].settings.frequencyHours))
         /\ \A n \in 1..HoursWatched :
              n # Cadence(loc[p].settings.frequencyHours) =>
                ~EveryNHours(taskExpr'[task'], n)]_vars

\* triggers are live for the daily cadence and, from a frequency of 3 hours,
\* for the 4-hour cadence
C21_Witness ==
  \E p \in Procs :
    /\ pc[p] = "u_write" /\ task \in armed
    /\ \/ loc[p].settings.frequencyHours = 24 /\ FiringHours(taskExpr[task]) = {0, 24, 48}
       \/ loc[p].settings.frequencyHours = 3 /\ EveryNHours(taskExpr[task], 4)

(***************************************************************************)
(* The cap: one feed with more recent items than generateSummary takes,    *)
(* listed newest first or oldest first, with stale, undated and blank      *)
(* items among them.                                                       *)
(***************************************************************************)
ManyItems == 15    \* items of the longest feed

\* an item with title and content published k hours before t
AgedItem(t, k) == Item(TRUE, TRUE, t - k * HourMs)

NewestFirst(t, n) == [k \in 1..n |-> AgedItem(t, k - 1)]
OldestFirst(t, n) == [k \in 1..n |-> AgedItem(t, n - k)]

LongFeeds(t) ==
  {<<>>,
   <<StaleItem(t)>>,
   <<UndatedItem, BlankItem(t), StaleItem(t), FreshItem(t)>>,
   NewestFirst(t, ManyItems),
   <<BlankItem(t), StaleItem(t)>> \o NewestFirst(t, ManyItems),
   OldestFirst(t, ManyItems)}

CapInit ==
  /\ Quiet
  /\ feeds = [id \in {"f1"} |-> Feed("Blog", <<"blog", "feed">>, TRUE, TRUE)]
  /\ summaries = <<>>
  /\ emailSettings = NoMailSettings

CapNext ==
  \/ Tick
  \/ generateRequest("h1")
  \/ \E up \in BOOLEAN :
       \/ Generate_steps("h1", up)
       \/ generateSummary_create("h1", up)
       \/ generateSummary_logDone("h1", up)
       \/ \E outs \in SteadyOuts, items \in LongFeeds(now) :
            generateSummary_check("h1", outs, FALSE, items, [AllUp EXCEPT !.get = up])
  \/ \E resp \in {CallThrows, GoodResponse} : generateSummary_summarize("h1", resp)
  \/ Settle("h1")

CapSpec == CapInit /\ [][CapNext]_vars

\* the collection of slot p has fetched its one feed with success
Collected(p) ==
  /\ pc[p] \in {"g_ai", "g_create", "g_logok", "g_catch"}
  /\ loc[p].check # NoCheck /\ loc[p].check.success

\* the items of a fetched feed published within the 24 hours before t
Qualifying(items, t) == {k \in DOMAIN items : IsRecent(items[k], t)}

\* the n most recent of them, all being dated
MostRecent(items, t, n) ==
  {k \in Qualifying(items, t) :
     Cardinality({j \in Qualifying(items, t) :
                    items[j].pubDate > items[k].pubDate}) < n}

\* C23: of a fetched feed the collection keeps only items published within
\* the last 24 hours or undated, takes at most 10 articles, which are the 10
\* most recent of the items kept (those of them that have a title and a
\* content), and every article has a title and a content.
C23_TenMostRecent ==
  \A p \in Procs :
    Collected(p) =>
      LET c == loc[p].check
          got == loc[p].dates
          dated == \A k \in Qualifying(c.items, c.at) : c.items[k].pubDate # NoTime
      IN  /\ Len(got) = Len(loc[p].articles)
          /\ Len(got) <= PerFeedCap
          /\ \A k \in DOMAIN got :
               \E j \in Qualifying(c.items, c.at) :
                 /\ c.items[j].pubDate = got[k]
                 /\ c.items[j].title /\ c.items[j].content
          /\ dated =>
               {got[k] : k \in DOMAIN got} =
               {c.items[j].pubDate : j \in {i \in MostRecent(c.items, c.at, PerFeedCap) :
                                              c.items[i].title /\ c.items[i].content}}

(***************************************************************************)
(* The fallback excerpt: two feeds that have the same name, different      *)
(* names or an empty name (PATCH /api/feeds/:id takes any name) yield one, *)
(* two or more articles and the text-generation call throws.               *)
(***************************************************************************)
FeedNames == {"Blog", "News", ""}

ExcerptInit ==
  /\ Quiet
  /\ feeds \in {[id \in FeedIds |->
                   IF id = "f1" THEN Feed(n1, <<"blog", "feed">>, TRUE, TRUE)
                   ELSE Feed(n2, <<"news", "rss">>, TRUE, TRUE)] :
                n1 \in {"Blog", ""}, n2 \in FeedNames}
  /\ summaries = <<>>
  /\ emailSettings = NoMailSettings

ExcerptNext ==
  \/ generateRequest("h1")
  \/ \E up \in BOOLEAN :
       \/ Generate_steps("h1", up)
       \/ generateSummary_create("h1", up)
       \/ generateSummary_logDone("h1", up)
  \/ \E items \in {<<>>, <<FreshItem(now)>>, <<FreshItem(now), UndatedItem>>} :
       generateSummary_check("h1", <<TRUE, TRUE, TRUE>>, FALSE, items, AllUp)
  \/ \E resp \in {CallThrows, GoodResponse} : generateSummary_summarize("h1", resp)
  \/ Settle("h1")

ExcerptSpec == ExcerptInit /\ [][ExcerptNext]_vars

\* createAISummary has returned in slot p from a text-generation call that threw
ForcedFallback(p) == Summarized(p) /\ loc[p].reply.call = "throws"

SourceNames(articles) == {articles[k] : k \in DOMAIN articles}

AcrossSources(n, m) ==
  "Latest news from " \o ToString(n) \o " article" \o (IF n = 1 THEN "" ELSE "s")
    \o " across " \o ToString(m) \o " source" \o (IF m = 1 THEN "" ELSE "s") \o "."

FromYourFeeds(n) ==
  "Latest news from " \o ToString(n) \o " article" \o (IF n = 1 THEN "" ELSE "s")
    \o " from your configured RSS feeds."

\* C25 as stated: with the text-generation call failing, the excerpt for N
\* articles over M de-duplicated source names is 'Latest news from N
\* article(s) across M source(s).', singular exactly for N = 1 and for M = 1.
C25_ExcerptAcrossSources ==
  \A p \in Procs :
    ForcedFallback(p) =>
      loc[p].gen.excerpt =
        <<AcrossSources(Len(loc[p].articles),
                        Cardinality(SourceNames(loc[p].articles)))>>

\* C25: with the text-generation call failing, the excerpt for N articles is
\* 'Latest news from N article(s) across M source(s).' where M counts the
\* de-duplicated non-empty source names, singular exactly for N = 1 and for
\* M = 1; when no article has a non-empty source name it is 'Latest news
\* from N article(s) from your configured RSS feeds.'.
C25_ExcerptNamedSources ==
  \A p \in Procs :
    ForcedFallback(p) =>
      LET n == Len(loc[p].articles)
          m == Cardinality(SourceNames(loc[p].articles) \ {"", NULL})
      IN  loc[p].gen.excerpt =
            IF m > 0 THEN <<AcrossSources(n, m)>> ELSE <<FromYourFeeds(n)>>

\* two articles of feeds without a name, and the excerpt for them
C25_Witness ==
  \E p \in Procs :
    /\ ForcedFallback(p)
    /\ loc[p].articles = <<"", "">>
    /\ loc[p].gen.excerpt =
         <<"Latest news from 2 articles from your configured RSS feeds.">>

(***************************************************************************)
(* The retries: POST /api/summaries/:id/retry on the stored digest and on  *)
(* an id that has no row, among deliveries of the stored digest.           *)
(***************************************************************************)
\* slot p serves a retry and takes this step
RetryStep(p) == loc[p].op = "retry" /\ pc[p] # "idle" /\ pc'[p] # pc[p]

\* the digests stored before this step are what they were
DigestsKept ==
  /\ Len(summaries') >= Len(summaries)
  /\ \A i \in 1..Len(summaries) : summaries'[i] = summaries[i]

RaceInit ==
  /\ now = 0
  /\ serving = TRUE
  /\ task = 1
  /\ armed = {1}
  /\ taskExpr = [t \in TaskIds |-> IF t = 1 THEN getCronExpression(1) ELSE ""]
  /\ isRunning = FALSE
  /\ scheduleSettings = [Schedule(TRUE, 1) EXCEPT !.nextRun = getNextRunTime(0, 1)]
  /\ feeds = [id \in {"f1"} |-> Feed("Blog", <<"blog", "feed">>, FALSE, TRUE)]
  /\ summaries = <<>>
  /\ emailSettings = NoMailSettings
  /\ transporter = NoTransport
  /\ pc = [p \in Procs |-> "idle"]
  /\ loc = [p \in Procs |-> LocInit]

RaceNext ==
  \/ /\ pc["h2"] = "idle"
     /\ \/ \E t \in TaskIds : runScheduledTask("h1", t)
        \/ \E hours \in Freqs : postSchedule("h1", TRUE, hours)
  \/ /\ pc["h1"] # "ps_write"
     /\ \E hours \in Freqs : postSchedule("h2", FALSE, hours)
  \/ Settle("h1")
  \/ \E p \in Procs, up \in BOOLEAN :
       \/ Schedule_steps(p, up)
       \/ runScheduledTask_logStart(p, up)
       \/ runScheduledTask_getSettings(p, up)
       \/ runScheduledTask_putSettings(p, up)
       \/ Generate_steps(p, up)
       \/ runScheduledTask_logOutcome(p, up)
       \/ runScheduledTask_catch(p, up)

RaceSpec == RaceInit /\ [][RaceNext]_vars

\* the disable request has been answered and nothing else is in progress
DisableSettled ==
  /\ pc["h2"] = "done" /\ loc["h2"].op = "postSchedule" /\ loc["h2"].res = "ok"
  /\ pc["h1"] \in {"idle", "done"}

\* C28: when a request that disables the schedule interleaves with a
\* scheduled run or an updateSchedule in progress, then once all of them have
\* completed the persisted isEnabled is false and no trigger is armed.
C28_DisableNotLost ==
  DisableSettled =>
    /\ ~scheduleSettings.isEnabled
    /\ armed = {} /\ task = NoTask

(***************************************************************************)
(* The mail settings are edited between the deliveries of a stored digest, *)
(* one request at a time.                                                  *)
(***************************************************************************)
Cfgs == {1, 2}

SettingsInit ==
  /\ Quiet
  /\ feeds = [id \in {"f1"} |-> Feed("Blog", <<"blog", "feed">>, TRUE, TRUE)]
  /\ summaries = <<StoredDigest>>
  /\ emailSettings \in {NoMailSettings, MailSettings(TRUE, 1)}

SettingsNext ==
  \/ sendEmail("h1", 1)
  \/ \E cfg \in Cfgs : postEmailSettings("h1", cfg)
  \/ \E up \in BOOLEAN :
       \/ postEmailSettings_write("h1", up)
       \/ postEmailSettings_log("h1", up)
       \/ Deliver_steps("h1", up)
  \/ Settle("h1")

SettingsSpec == SettingsInit /\ [][SettingsNext]_vars

\* the delivery of slot p calls sendMail in this step
CallsSendMail(p) == pc[p] # "s_send" /\ pc'[p] = "s_send"

\* C30: every delivery calls sendMail on a transport that was created from
\* the mail settings stored at the time of the call: after the settings
\* are changed no delivery uses a transport of the previous settings.
C30_TransportOfCurrentSettings ==
  [][\A p \in Procs :
       CallsSendMail(p) =>
         /\ loc'[p].via.set
         /\ loc'[p].via.cfg = emailSettings.cfg]_vars

====
